---- MODULE Spec2Model ----
(***************************************************************************)
(* Progressista: a tqdm progress relay.                                    *)
(*                                                                         *)
(* Client side (progressista/client.py): RemoteTqdmMixin, an emitter whose *)
(* producer thread puts events on an unbounded queue.Queue and whose       *)
(* daemon worker thread (_worker) dequeues, throttles and posts them.      *)
(*                                                                         *)
(* Server side (progressista/server.py): the task registry with its        *)
(* POST /progress merge, the DELETE handlers, the cleanup loop, the        *)
(* snapshot file and the watcher broadcast.                                *)
(*                                                                         *)
(* Time is counted in whole seconds.  Python's None is <<>>, a present     *)
(* value v is <<v>>.                                                       *)
(***************************************************************************)
EXTENDS Integers, Sequences, FiniteSets, TLC

\* ------------------------------------------------------------------ bounds
\* update()/set_description() calls of one emitter
MaxUpdates == 2
\* close() calls of one emitter (tqdm calls close() again from __del__)
MaxCloses == 2
\* seconds the client clock advances during one run
MaxTime == 2

\* ClientSettings.request_timeout default, in seconds
RequestTimeout == 2

None == <<>>
Some(v) == <<v>>

\* time.time() at construction, far above any push interval; last_push
\* starts at 0.0
Epoch == MaxTime + 1
\* push intervals tried: none, short, and longer than the whole run
PushEveryChoices == {0, 2, MaxTime + 1}

Last(s) == s[Len(s)]

\* ------------------------------------------------------------ client state
VARIABLES
  ppc,          \* producer position
  nupd,         \* update()/set_description() calls made
  ncloses,      \* close() calls entered
  nemit,        \* _emit calls made; the next event gets seq nemit + 1
  queue,        \* self._queue
  stop_event,   \* self._stop_event
  closed_attr,  \* getattr(self, "_closed", False)
  join_start,   \* time at which the running join() began
  push_every,   \* self._push_every
  wpc,          \* worker position
  last_push,    \* _worker local
  buffered,     \* _worker local
  wnow,         \* _worker local `now`
  cnow,         \* client wall clock
  sent          \* events handed to requests.post, in order

cvars == <<ppc, nupd, ncloses, nemit, queue, stop_event, closed_attr,
           join_start, push_every, wpc, last_push, buffered, wnow, cnow, sent>>

ClientInit ==
  /\ ppc = "construct"
  /\ nupd = 0
  /\ ncloses = 0
  /\ nemit = 0
  /\ queue = <<>>
  /\ stop_event = FALSE
  /\ closed_attr = FALSE
  /\ join_start = 0
  /\ push_every \in PushEveryChoices
  /\ wpc = "nothread"
  /\ last_push = 0
  /\ buffered = None
  /\ wnow = 0
  /\ cnow = Epoch
  /\ sent = <<>>

\* queue.Queue() is built with maxsize 0: put() never waits for room.
QueuePutBounded(q) == Len(q) < 1
QueuePutReady(q) == TRUE

\* _emit: build the payload and put it on the queue.
emit_push_front(q, ev) == <<ev>> \o q
emit_append(q, ev) == Append(q, ev)
emit(st) ==
  /\ QueuePutReady(queue)
  /\ queue' = emit_append(queue, [seq |-> nemit + 1, status |-> st])
  /\ nemit' = nemit + 1

\* __init__: _start_worker()
start_worker ==
  /\ ppc = "construct"
  /\ wpc = "nothread"
  /\ wpc' = "check"
  /\ ppc' = "emit_start"
  /\ UNCHANGED <<nupd, ncloses, nemit, queue, stop_event, closed_attr,
                 join_start, push_every, last_push, buffered, wnow, cnow, sent>>

\* __init__: self._emit(status="start", ...)
init_emit ==
  /\ ppc = "emit_start"
  /\ emit("start")
  /\ ppc' = "run"
  /\ UNCHANGED <<nupd, ncloses, stop_event, closed_attr, join_start,
                 push_every, wpc, last_push, buffered, wnow, cnow, sent>>

\* update() and set_description(): both emit one update event.
update ==
  /\ ppc = "run"
  /\ nupd < MaxUpdates
  /\ emit("update")
  /\ nupd' = nupd + 1
  /\ UNCHANGED <<ppc, ncloses, stop_event, closed_attr, join_start,
                 push_every, wpc, last_push, buffered, wnow, cnow, sent>>

\* close(): the _closed guard, then super().close().  Nothing in the
\* package assigns _closed.
close_enter ==
  /\ ppc \in {"run", "closed"}
  /\ ncloses < MaxCloses
  /\ ncloses' = ncloses + 1
  /\ ppc' = IF closed_attr THEN "closed" ELSE "emit_close"
  /\ UNCHANGED <<nupd, nemit, queue, stop_event, closed_attr, join_start,
                 push_every, wpc, last_push, buffered, wnow, cnow, sent>>

\* close(): self._emit(status="close", ...)
close_emit ==
  /\ ppc = "emit_close"
  /\ emit("close")
  /\ ppc' = "set_stop"
  /\ UNCHANGED <<nupd, ncloses, stop_event, closed_attr, join_start,
                 push_every, wpc, last_push, buffered, wnow, cnow, sent>>

\* close(): self._stop_event.set(), then join() begins
close_set_stop ==
  /\ ppc = "set_stop"
  /\ stop_event' = TRUE
  /\ join_start' = cnow
  /\ ppc' = "join"
  /\ UNCHANGED <<nupd, ncloses, nemit, queue, closed_attr,
                 push_every, wpc, last_push, buffered, wnow, cnow, sent>>

\* close(): self._thread.join(timeout=request_timeout) returns when the
\* worker has ended or the timeout has run out.
JoinReturnsAtOnce == TRUE
JoinReturns == wpc = "done" \/ cnow - join_start >= RequestTimeout
close_join ==
  /\ ppc = "join"
  /\ JoinReturns
  /\ ppc' = "closed"
  /\ UNCHANGED <<nupd, ncloses, nemit, queue, stop_event, closed_attr,
                 join_start, push_every, wpc, last_push, buffered, wnow,
                 cnow, sent>>

\* ------------------------------------------------------------------ worker
\* `while not self._stop_event.is_set()`
worker_check ==
  /\ wpc = "check"
  /\ wpc' = IF stop_event THEN "drain" ELSE "get"
  /\ UNCHANGED <<ppc, nupd, ncloses, nemit, queue, stop_event, closed_attr,
                 join_start, push_every, last_push, buffered, wnow, cnow, sent>>

\* `buffered = item`
BufferKeepOld(buf, item) == IF buf = None THEN Some(item) ELSE buf
BufferItem(buf, item) == Some(item)

\* `buffered and (now - last_push >= push_every)`
ThrottleAlways(buf, now, last) == buf # None
ThrottleOpen(buf, now, last) == buf # None /\ now - last >= push_every

\* the record of one requests.post call
Attempt(ev, t, ph) == [seq |-> ev.seq, status |-> ev.status, t |-> t,
                       phase |-> ph, ok |-> "pending"]

\* One pass of the loop body up to the call of _post: queue.get(timeout=0.1)
\* returns the head of the queue, or raises Empty when the queue stays
\* empty; then now = time.time() and the throttle test.
worker_get ==
  /\ wpc = "get"
  /\ LET got == queue # <<>>
         buf == IF got THEN BufferItem(buffered, Head(queue)) ELSE buffered
     IN /\ queue' = IF got THEN Tail(queue) ELSE queue
        /\ buffered' = buf
        /\ wnow' = cnow
        /\ IF ThrottleOpen(buf, cnow, last_push)
             THEN /\ sent' = Append(sent, Attempt(buf[1], cnow, "loop"))
                  /\ wpc' = "posting"
             ELSE /\ sent' = sent
                  /\ wpc' = "check"
  /\ UNCHANGED <<ppc, nupd, ncloses, nemit, stop_event, closed_attr,
                 join_start, push_every, last_push, cnow>>

\* _post: requests.post inside try/except Exception: pass.  TRUE when the
\* call lets an exception out to its caller.
PostLeaksFailure(outcome) == outcome # "ok"
post(outcome) == FALSE

PostOutcomes == {"ok", "failed"}

SetOutcome(s, o) == [s EXCEPT ![Len(s)].ok = o]

\* _post returns in the loop: `last_push = now; buffered = None`
worker_posted ==
  /\ wpc = "posting"
  /\ \E o \in PostOutcomes:
       /\ sent' = SetOutcome(sent, o)
       /\ IF post(o)
            THEN /\ wpc' = "crashed"
                 /\ UNCHANGED <<last_push, buffered>>
            ELSE /\ wpc' = "check"
                 /\ last_push' = wnow
                 /\ buffered' = None
  /\ UNCHANGED <<ppc, nupd, ncloses, nemit, queue, stop_event, closed_attr,
                 join_start, push_every, wnow, cnow>>

\* after the loop: `if buffered: self._post(buffered)`
worker_drain ==
  /\ wpc = "drain"
  /\ IF buffered # None
       THEN /\ sent' = Append(sent, Attempt(buffered[1], cnow, "flush"))
            /\ wpc' = "flush_posting"
       ELSE /\ sent' = sent
            /\ wpc' = "flush"
  /\ UNCHANGED <<ppc, nupd, ncloses, nemit, queue, stop_event, closed_attr,
                 join_start, push_every, last_push, buffered, wnow, cnow>>

\* a shutdown that sends the buffered event only and leaves the queue
worker_flush_nodrain ==
  /\ wpc = "flush"
  /\ wpc' = "done"
  /\ UNCHANGED <<ppc, nupd, ncloses, nemit, queue, stop_event, closed_attr,
                 join_start, push_every, last_push, buffered, wnow, cnow, sent>>

\* `pending = self._queue.get_nowait()` ... `self._post(pending)`, or break
worker_flush ==
  /\ wpc = "flush"
  /\ IF queue = <<>>
       THEN /\ wpc' = "done"
            /\ UNCHANGED <<queue, sent>>
       ELSE /\ queue' = Tail(queue)
            /\ sent' = Append(sent, Attempt(Head(queue), cnow, "flush"))
            /\ wpc' = "flush_posting"
  /\ UNCHANGED <<ppc, nupd, ncloses, nemit, stop_event, closed_attr,
                 join_start, push_every, last_push, buffered, wnow, cnow>>

\* _post returns during the shutdown flush
worker_flush_posted ==
  /\ wpc = "flush_posting"
  /\ \E o \in PostOutcomes:
       /\ sent' = SetOutcome(sent, o)
       /\ wpc' = IF post(o) THEN "crashed" ELSE "flush"
  /\ UNCHANGED <<ppc, nupd, ncloses, nemit, queue, stop_event, closed_attr,
                 join_start, push_every, last_push, buffered, wnow, cnow>>

\* the wall clock advances by one second
client_tick ==
  /\ cnow < Epoch + MaxTime
  /\ cnow' = cnow + 1
  /\ UNCHANGED <<ppc, nupd, ncloses, nemit, queue, stop_event, closed_attr,
                 join_start, push_every, wpc, last_push, buffered, wnow, sent>>

\* ------------------------------------------------------------ server state
\* A Python dict is a function whose domain is the set of keys present.
VARIABLES
  tasks,      \* app.state.tasks: task_id -> task dict
  snow,       \* server wall clock, time.time()
  settings,   \* app.state.settings and app.state.storage_path
  disk,       \* the snapshot file: None, or Some of its content
  watchers,   \* app.state.watchers
  inbox,      \* per websocket, the last payload it was sent
  req,        \* the operation that ran last, with its inputs
  resp,       \* what that operation returned
  hist        \* the events merged so far, with their merge times

svars == <<tasks, snow, settings, disk, watchers, inbox, req, resp, hist>>

\* the process, its files and its coroutines
VARIABLES
  app,           \* "up" once create_app has returned an app, else "down"
  boots,         \* how many times create_app has run
  cleanup_task,  \* app.state.cleanup_task: "none", "running", or "done"
                 \* once cleanup_loop has returned
  co,            \* per request coroutine: where it stands and its locals
  persist_lock,  \* app.state.persist_lock: the holder, then the waiters
  tmp,           \* the snapshot path with suffix .tmp: None or its chunks
  handed,        \* every payload persist_state has been given to write
  ws,            \* per websocket: where its watch() stands and the
                 \* messages delivered to its peer, in order
  sending,       \* per websocket: the send_json calls that have not
                 \* returned, in call order
  watch_order    \* the iteration order of app.state.watchers

xvars == <<app, boots, cleanup_task, co, persist_lock, tmp, handed, ws, sending,
           watch_order>>
\* the interpreter that has imported progressista.patch
VARIABLES
  sys_modules,      \* per imported tqdm module, the class its attribute
                    \* `tqdm` is bound to
  PATCHED,          \* patch._PATCHED: patched module -> original class
  remote_defaults,  \* per class that has its own _remote_defaults, its value
  ninstall,         \* install() calls made
  pcall             \* the call of patch.py or import that ran last

pvars == <<sys_modules, PATCHED, remote_defaults, ninstall, pcall>>
vars == <<cvars, svars, xvars, pvars>>

\* seconds the server clock advances
MaxNow == 3
\* process starts
MaxBoots == 2
\* install() calls of one program
MaxInstalls == 3
\* merges recorded in hist
MaxMerges == 2

TaskIds == {"t1", "t2"}
WatcherIds == {"w1"}
EmptyDict == <<>>

Get(d, k, default) == IF k \in DOMAIN d THEN d[k] ELSE default
Put(d, k, v) == [x \in DOMAIN d \cup {k} |-> IF x = k THEN v ELSE d[x]]
SetDefaultOverwrites(d, k, v) == Put(d, k, v)
SetDefault(d, k, v) == IF k \in DOMAIN d THEN d ELSE Put(d, k, v)
Pop(d, k) == [x \in DOMAIN d \ {k} |-> d[x]]
PopAll(d, ks) == [x \in DOMAIN d \ ks |-> d[x]]

\* create_app: the state kept on the app object, with no snapshot file to
\* load
ServerInit(configs) ==
  /\ tasks = EmptyDict
  /\ snow = 0
  /\ settings \in configs
  /\ disk = None
  /\ watchers = {}
  /\ inbox = [w \in WatcherIds |-> None]
  /\ req = [op |-> "create_app"]
  /\ resp = [code |-> 0]
  /\ hist = <<>>

\* _extract_bearer.  A header is [scheme, cred] for the text
\* "<scheme> <cred>"; lower() folds the scheme's case.
Lower(s) == IF s = "Bearer" THEN "bearer" ELSE IF s = "Basic" THEN "basic" ELSE s
extract_bearer(header) ==
  IF header = None THEN None
  ELSE IF Lower(header[1].scheme) # "bearer" THEN None
  ELSE IF header[1].cred = "" THEN None
  ELSE Some(header[1].cred)

\* require_token: TRUE when it returns, FALSE when it raises the 401
require_token_first_only(candidates) ==
  \/ settings.api_tokens = {}
  \/ (candidates[1] # None /\ candidates[1][1] \in settings.api_tokens)
require_token(candidates) ==
  \/ settings.api_tokens = {}
  \/ \E i \in 1..Len(candidates):
       /\ candidates[i] # None
       /\ candidates[i][1] # ""
       /\ candidates[i][1] \in settings.api_tokens

\* get_snapshot: a copy of the registry
get_snapshot(ts) == ts

\* persist_state: the file's content after the call; wok says whether
\* write_snapshot succeeds
persist_state_in_place(snapshot, wok) ==
  IF ~settings.storage THEN disk
  ELSE IF wok THEN Some([tasks |-> snapshot, saved_at |-> snow])
  ELSE Some([torn |-> <<>>])
persist_state(snapshot, wok) ==
  IF ~settings.storage THEN disk
  ELSE IF wok THEN Some([tasks |-> snapshot, saved_at |-> snow])
  ELSE disk

\* broadcast: send_json to every watcher; the sends to `dead` fail and those
\* watchers are discarded
broadcast_inbox(snapshot, dead) ==
  [w \in WatcherIds |->
     IF w \in watchers \ dead THEN Some([tasks |-> snapshot]) ELSE inbox[w]]
broadcast_watchers(dead) == watchers \ dead

\* `snapshot = await get_snapshot(); await persist_state(snapshot);
\*  await broadcast(snapshot)`
publish(ts, wok, dead) ==
  /\ disk' = persist_state(get_snapshot(ts), wok)
  /\ inbox' = broadcast_inbox(get_snapshot(ts), dead)
  /\ watchers' = broadcast_watchers(dead)

\* the 401 raised by require_token: nothing else happens
rejected ==
  /\ resp' = [code |-> 401]
  /\ UNCHANGED <<tasks, disk, inbox, watchers, hist>>

\* progress: the task a never-seen task_id starts from
new_task(id, now) ==
  [task_id |-> id, created_at |-> now, n |-> 0, total |-> None,
   status |-> "start"]

\* progress: `event_dict.setdefault("status", "update")`
StatusKeepsOld(ev, task) ==
  IF ev.status # None THEN ev.status[1] ELSE task.status
event_status(ev, task) ==
  IF ev.status # None THEN ev.status[1] ELSE "update"

\* progress: `if event.<field> is not None: task[<field>] = event.<field>`
merge_field_always(task, k, v) == Put(task, k, IF v = None THEN 0 ELSE v[1])
merge_field(task, k, v) == IF v # None THEN Put(task, k, v[1]) ELSE task

\* progress: the merge done under state_lock.  meta is event.meta after the
\* pop of _token.
merge(ts, ev, meta, now) ==
  LET t0 == Get(ts, ev.task_id, new_task(ev.task_id, now))
      t1 == merge_field(t0, "desc", ev.desc)
      t2 == IF ev.total # None THEN Put(t1, "total", ev.total) ELSE t1
      t3 == merge_field(t2, "n", ev.n)
      t4 == merge_field(t3, "unit", ev.unit)
      t5 == merge_field(t4, "meta", meta)
      t6 == Put(t5, "status", event_status(ev, t0))
      t7 == Put(t6, "updated_at", now)
      t8 == Put(t7, "timestamp",
                IF ev.timestamp # None THEN ev.timestamp[1] ELSE now)
      t9 == IF t8.status = "close" THEN SetDefault(t8, "done_at", now) ELSE t8
      t10 == Pop(Pop(t9, "recovered"), "recovered_at")
  IN Put(ts, ev.task_id, t10)

\* progress: event.meta after `event.meta.pop("_token")`, which runs when
\* the meta is a non-empty dict with that key
keep_token(m) == m
pop_token(m) ==
  IF m # None /\ m[1] # EmptyDict /\ "_token" \in DOMAIN m[1]
    THEN Some(Pop(m[1], "_token"))
    ELSE m

\* POST /progress.  qtok is the query token, header the authorization
\* header; rec says whether the merge is recorded in hist.
progress(ev, qtok, header, wok, dead, rec) ==
  LET has_token == /\ ev.meta # None
                   /\ ev.meta[1] # EmptyDict
                   /\ "_token" \in DOMAIN ev.meta[1]
      meta_token == IF has_token THEN Some(ev.meta[1]["_token"]) ELSE None
      meta == pop_token(ev.meta)
  IN /\ req' = [op |-> "progress", id |-> ev.task_id, meta |-> ev.meta,
                status |-> ev.status, qtok |-> qtok, header |-> header]
     /\ snow' = snow
     /\ settings' = settings
     /\ IF ~require_token(<<meta_token, qtok, extract_bearer(header)>>)
          THEN rejected
          ELSE /\ tasks' = merge(tasks, ev, meta, snow)
               /\ publish(tasks', wok, dead)
               /\ resp' = [code |-> 200]
               /\ hist' = IF rec THEN Append(hist, [ev |-> ev, t |-> snow])
                          ELSE hist

\* DELETE /tasks/{task_id}
delete_task(id, qtok, header, wok, dead) ==
  /\ req' = [op |-> "delete_task", id |-> id, qtok |-> qtok,
             header |-> header]
  /\ snow' = snow
  /\ settings' = settings
  /\ IF ~require_token(<<qtok, extract_bearer(header)>>)
       THEN rejected
       ELSE /\ tasks' = Pop(tasks, id)
            /\ IF id \in DOMAIN tasks
                 THEN publish(tasks', wok, dead)
                 ELSE UNCHANGED <<disk, inbox, watchers>>
            /\ resp' = [code |-> 200, removed |-> id \in DOMAIN tasks]
            /\ hist' = hist

\* data.get("updated_at", data.get("created_at", now))
updated_at_of(data, now) == Get(data, "updated_at", Get(data, "created_at", now))

\* bulk_delete_tasks: the ids that pass both filters
bulk_matches(ts, status, older_than, now) ==
  {id \in DOMAIN ts:
     /\ ~(status # None /\ status[1] # "" /\ Get(ts[id], "status", "") # status[1])
     /\ ~(older_than # None /\ older_than[1] # 0
          /\ updated_at_of(ts[id], now) > now - older_than[1])}

\* DELETE /tasks
bulk_delete_tasks(status, older_than, qtok, header, wok, dead) ==
  /\ req' = [op |-> "bulk_delete", status |-> status,
             older_than |-> older_than, qtok |-> qtok, header |-> header]
  /\ snow' = snow
  /\ settings' = settings
  /\ IF ~require_token(<<qtok, extract_bearer(header)>>)
       THEN rejected
       ELSE LET removed_ids == bulk_matches(tasks, status, older_than, snow)
            IN /\ tasks' = PopAll(tasks, removed_ids)
               /\ IF removed_ids # {}
                    THEN publish(tasks', wok, dead)
                    ELSE UNCHANGED <<disk, inbox, watchers>>
               /\ resp' = [code |-> 200, removed |-> removed_ids]
               /\ hist' = hist

\* cleanup_loop: `now - updated_at > settings.retention_seconds`
ExpiredAtOrAfter(age, limit) == age >= limit
Expired(age, limit) == age > limit

\* cleanup_loop: stale_ids, the closed tasks past the retention window
close_retention_ids(ts, now) ==
  {id \in DOMAIN ts:
     /\ Get(ts[id], "status", "") = "close"
     /\ settings.retention_seconds > 0
     /\ Expired(now - updated_at_of(ts[id], now), settings.retention_seconds)}

\* cleanup_loop: the ids the max_task_age pass appends to removed_ids
max_age_ids_open_only(ts, now) ==
  IF settings.max_task_age > 0
    THEN {id \in DOMAIN ts:
            /\ Get(ts[id], "status", "") \notin {"close", "stale"}
            /\ now - updated_at_of(ts[id], now) > settings.max_task_age}
    ELSE {}
max_age_ids(ts, now) ==
  IF settings.max_task_age > 0
    THEN {id \in DOMAIN ts:
            now - updated_at_of(ts[id], now) > settings.max_task_age}
    ELSE {}

\* cleanup_loop: the ids the stale_seconds pass marks
stale_marked_ids_again(ts, now) ==
  IF settings.stale_seconds > 0
    THEN {id \in DOMAIN ts:
            /\ Get(ts[id], "status", "") # "close"
            /\ now - updated_at_of(ts[id], now) > settings.stale_seconds}
    ELSE {}
stale_marked_ids(ts, now) ==
  IF settings.stale_seconds > 0
    THEN {id \in DOMAIN ts:
            /\ Get(ts[id], "status", "") \notin {"close", "stale"}
            /\ now - updated_at_of(ts[id], now) > settings.stale_seconds}
    ELSE {}
mark_stale_touching(data, now) ==
  Put(SetDefault(Put(data, "status", "stale"), "stale_at", now),
      "updated_at", now)
mark_stale(data, now) == SetDefault(Put(data, "status", "stale"), "stale_at", now)

\* cleanup_loop: one pass of the loop body after the sleep
sweep(wok, dead) ==
  LET now == snow
      removed_ids == close_retention_ids(tasks, now) \cup max_age_ids(tasks, now)
      marked == stale_marked_ids(tasks, now)
      after == [id \in DOMAIN tasks |->
                  IF id \in marked THEN mark_stale(tasks[id], now) ELSE tasks[id]]
      updated == removed_ids # {} \/ marked # {}
  IN /\ req' = [op |-> "sweep"]
     /\ tasks' = PopAll(after, removed_ids)
     /\ IF updated
          THEN publish(tasks', wok, dead)
          ELSE UNCHANGED <<disk, inbox, watchers>>
     /\ resp' = [removed |-> removed_ids, marked |-> marked]
     /\ UNCHANGED <<snow, settings, hist>>

\* watch: a websocket connects, is added to the watcher set and is sent the
\* current snapshot
watch(w, qtok, header) ==
  LET candidate == IF qtok # None /\ qtok[1] # "" THEN qtok
                   ELSE extract_bearer(header)
      refused == /\ settings.api_tokens # {}
                 /\ (candidate = None \/ candidate[1] \notin settings.api_tokens)
  IN /\ w \notin watchers
     /\ req' = [op |-> "watch", w |-> w, qtok |-> qtok, header |-> header]
     /\ IF refused
          THEN /\ resp' = [code |-> 4401]
               /\ UNCHANGED <<watchers, inbox>>
          ELSE /\ resp' = [code |-> 101]
               /\ watchers' = watchers \cup {w}
               /\ inbox' = [inbox EXCEPT ![w] = Some([tasks |-> get_snapshot(tasks)])]
     /\ UNCHANGED <<tasks, snow, settings, disk, hist>>

\* watch: the websocket disconnects; `finally` discards it
watch_closed(w) ==
  /\ w \in watchers
  /\ req' = [op |-> "watch_closed", w |-> w]
  /\ resp' = [code |-> 1000]
  /\ watchers' = watchers \ {w}
  /\ UNCHANGED <<tasks, snow, settings, disk, inbox, hist>>

\* the server clock advances by one second
server_tick ==
  /\ snow < MaxNow
  /\ snow' = snow + 1
  /\ req' = [op |-> "tick"]
  /\ resp' = [code |-> 0]
  /\ UNCHANGED <<tasks, settings, disk, watchers, inbox, hist>>

\* ------------------------------------------- process, files and coroutines
Handlers == {"h1", "h2"}
Sockets == {"w1", "w2"}
IdleCo == [pc |-> "idle"]
NewWs == [pc |-> "new", up |-> FALSE, received |-> <<>>]

\* the app object with nothing in flight
XInit(a) ==
  /\ app = a
  /\ boots = IF a = "up" THEN 1 ELSE 0
  /\ cleanup_task = IF a = "up" THEN "running" ELSE "none"
  /\ co = [h \in Handlers |-> IdleCo]
  /\ persist_lock = <<>>
  /\ tmp = None
  /\ handed = {}
  /\ ws = [w \in Sockets |-> NewWs]
  /\ sending = [w \in Sockets |-> <<>>]
  /\ watch_order = <<>>
XIdle == XInit("up")

\* A file's content is a record: what persist_state writes is
\* [tasks, saved_at]; bytes that are no JSON text are [torn]; a JSON text
\* that is no object is [array].
Readable(content) == "torn" \notin DOMAIN content
IsObject(content) == "array" \notin DOMAIN content

\* a JSON value that is not a number (null, a text) where the code
\* computes with it; timestamps themselves are never negative
NotANumber == -1
IsNumber(v) == v # NotANumber

\* load_persisted_tasks: the status a restored entry gets
restored_status_all_recovered(raw) == "recovered"
restored_status(raw) ==
  LET status == Get(raw, "status", "recovered")
  IN IF status = "close" THEN "close"
     ELSE IF status = "stale" THEN "stale"
     ELSE "recovered"

\* load_persisted_tasks: one entry of the loop
restore_unmarked(task_id, raw, now) ==
  LET t1 == Put(raw, "task_id", Get(raw, "task_id", task_id))
      t2 == SetDefault(t1, "created_at", now)
      t3 == SetDefault(t2, "updated_at", Get(t2, "created_at", now))
  IN Put(t3, "status", restored_status(t3))
restore(task_id, raw, now) ==
  LET t1 == Put(raw, "task_id", Get(raw, "task_id", task_id))
      t2 == SetDefault(t1, "created_at", now)
      t3 == SetDefault(t2, "updated_at", Get(t2, "created_at", now))
      t4 == Put(t3, "status", restored_status(t3))
  IN Put(Put(t4, "recovered", TRUE), "recovered_at", now)

\* load_persisted_tasks raises: `payload.get` on a payload that is no dict
load_raises(file) ==
  /\ file # None
  /\ Readable(file[1])
  /\ ~IsObject(file[1])

\* load_persisted_tasks
load_persisted_tasks(file, now) ==
  IF file = None THEN EmptyDict
  ELSE IF ~Readable(file[1]) THEN EmptyDict
  ELSE IF "tasks" \notin DOMAIN file[1] THEN EmptyDict
  ELSE [id \in DOMAIN file[1].tasks |-> restore(id, file[1].tasks[id], now)]

\* create_app in a fresh process: the registry is loaded from the file when
\* a storage path is configured, and the startup event creates cleanup_task
create_app ==
  /\ app = "down"
  /\ boots < MaxBoots
  /\ boots' = boots + 1
  /\ req' = [op |-> "create_app"]
  /\ IF settings.storage /\ load_raises(disk)
       THEN /\ resp' = [code |-> 500]
            /\ UNCHANGED <<app, cleanup_task, tasks>>
       ELSE /\ resp' = [code |-> 0]
            /\ app' = "up"
            /\ cleanup_task' = "running"
            /\ tasks' = IF settings.storage
                          THEN load_persisted_tasks(disk, snow)
                          ELSE EmptyDict
  /\ UNCHANGED <<snow, settings, disk, watchers, inbox, hist>>
  /\ UNCHANGED <<co, persist_lock, tmp, handed, ws, sending, watch_order>>

\* the process ends (_shutdown cancels cleanup_task); what was in memory is
\* gone, the files stay
process_exit ==
  /\ app = "up"
  /\ req' = [op |-> "exit"]
  /\ resp' = [code |-> 0]
  /\ app' = "down"
  /\ cleanup_task' = "none"
  /\ tasks' = EmptyDict
  /\ watchers' = {}
  /\ inbox' = [w \in WatcherIds |-> None]
  /\ UNCHANGED <<snow, settings, disk, hist>>
  /\ UNCHANGED <<boots, co, persist_lock, tmp, handed, ws, sending,
                 watch_order>>

\* cleanup_loop: where `now - updated_at` raises TypeError.  The stale_ids
\* comprehension subtracts only for closed tasks with retention on, the
\* max-age loop for every task, the staleness loop only for tasks that are
\* neither close nor stale.
raises_in_retention(ts, now) ==
  \E id \in DOMAIN ts:
    /\ Get(ts[id], "status", "") = "close"
    /\ settings.retention_seconds > 0
    /\ ~IsNumber(updated_at_of(ts[id], now))
raises_in_max_age(ts, now) ==
  /\ settings.max_task_age > 0
  /\ \E id \in DOMAIN ts: ~IsNumber(updated_at_of(ts[id], now))
raises_in_staleness(ts, now) ==
  /\ settings.stale_seconds > 0
  /\ \E id \in DOMAIN ts:
       /\ Get(ts[id], "status", "") \notin {"close", "stale"}
       /\ ~IsNumber(updated_at_of(ts[id], now))
cycle_raises(ts, now) ==
  \/ raises_in_retention(ts, now)
  \/ raises_in_max_age(ts, now)
  \/ raises_in_staleness(ts, now)

\* cleanup_loop: the tasks the staleness loop may have marked, in place,
\* before it raised
marked_before_raise(ts, now) ==
  IF raises_in_retention(ts, now) \/ raises_in_max_age(ts, now) THEN {}
  ELSE {id \in stale_marked_ids(ts, now): IsNumber(updated_at_of(ts[id], now))}

\* cleanup_loop: one turn of `while True` after the sleep.  The try
\* statement encloses the while loop, so an exception in the body leaves
\* the loop and cleanup_loop returns.
cleanup_after(raised) == IF raised THEN "done" ELSE "running"
cleanup_cycle(wok, dead) ==
  /\ app = "up"
  /\ cleanup_task = "running"
  /\ cleanup_task' = cleanup_after(cycle_raises(tasks, snow))
  /\ IF cycle_raises(tasks, snow)
       THEN /\ req' = [op |-> "sweep_raised"]
            /\ resp' = [code |-> 500]
            /\ \E done \in SUBSET marked_before_raise(tasks, snow):
                 tasks' = [id \in DOMAIN tasks |->
                             IF id \in done THEN mark_stale(tasks[id], snow)
                             ELSE tasks[id]]
            /\ UNCHANGED <<snow, settings, disk, watchers, inbox, hist>>
       ELSE sweep(wok, dead)
  /\ UNCHANGED <<app, boots, co, persist_lock, tmp, handed, ws, sending,
                 watch_order>>

\* ------------------------------------------------ handlers, step by step
\* asyncio runs a coroutine without interruption up to an await that has
\* to wait.  state_lock and watchers_lock are never held across an await,
\* so acquiring them never waits; a handler can be suspended in
\* persist_state (on persist_lock and on run_in_executor) and in
\* ws.send_json, and watch() also in ws.accept and ws.receive_text.  Each
\* action below is one uninterrupted stretch.

\* persist_state: `data` without the version
FilePayload(snapshot, now) == [tasks |-> snapshot, saved_at |-> now]
\* broadcast: `payload`
Payload(snapshot) == [tasks |-> snapshot]

\* the text json.dumps returns, written in two halves
FirstHalf(data) == [of |-> data, part |-> 1]
SecondHalf(data) == [of |-> data, part |-> 2]
Hole == [of |-> [hole |-> TRUE], part |-> 0]
\* the bytes of a file after a write of chunk c at position k
WriteAt(content, k, c) ==
  [i \in 1..(IF Len(content) > k THEN Len(content) ELSE k) |->
     IF i = k THEN c ELSE IF i <= Len(content) THEN content[i] ELSE Hole]
\* what a reader of a file with these bytes finds
FileOf(content) ==
  IF /\ Len(content) = 2
     /\ content[1] = FirstHalf(content[1].of)
     /\ content[2] = SecondHalf(content[1].of)
    THEN Some(content[1].of)
    ELSE Some([torn |-> content])
TmpContent == IF tmp = None THEN <<>> ELSE tmp[1]

\* asyncio.Lock.acquire returns at once iff the lock is free
lock_free_always(lock) == TRUE
lock_free(lock) == lock = <<>>

Remove(seq, x) == SelectSeq(seq, LAMBDA y: y # x)
Range(seq) == {seq[i]: i \in 1..Len(seq)}
\* set.add: the iteration orders the set can have afterwards
OrdersAfterAdd(order, w) ==
  {SubSeq(order, 1, i) \o <<w>> \o SubSeq(order, i + 1, Len(order)):
     i \in 0..Len(order)}

\* ws.send_json is called: the message is queued on the socket
call_send(snd, w, by, payload) ==
  [snd EXCEPT ![w] = Append(@, [by |-> by, payload |-> payload])]

\* broadcast up to its first await: the copy of the watcher set and the
\* first send_json call; with no watcher it returns
broadcast_co(snapshot) ==
  IF watch_order = <<>> THEN IdleCo
  ELSE [pc |-> "sending", snapshot |-> snapshot, list |-> watch_order,
        todo |-> watch_order, dead |-> {}]
broadcast_sending(snd, h, snapshot) ==
  IF watch_order = <<>> THEN snd
  ELSE call_send(snd, Head(watch_order), h, Payload(snapshot))
broadcast_resp ==
  IF watch_order = <<>> THEN [code |-> 200, list |-> <<>>, dead |-> {}]
  ELSE [code |-> 0]

\* broadcast: the watchers still to be sent to after a send returned
after_send_stop_on_failure(todo, ok) == IF ok THEN Tail(todo) ELSE <<>>
after_send(todo, ok) == Tail(todo)

\* POST /progress up to its first suspension: the merge, the snapshot, and
\* persist_state up to persist_lock or run_in_executor; without a storage
\* path persist_state returns and broadcast starts
progress_merge(h, ev) ==
  /\ app = "up"
  /\ co[h].pc = "idle"
  /\ require_token(<<None, None, None>>)
  /\ req' = [op |-> "progress_merge", h |-> h, id |-> ev.task_id]
  /\ tasks' = merge(tasks, ev, ev.meta, snow)
  /\ hist' = Append(hist, [ev |-> ev, t |-> snow])
  /\ IF ~settings.storage
       THEN /\ co' = [co EXCEPT ![h] = broadcast_co(get_snapshot(tasks'))]
            /\ sending' = broadcast_sending(sending, h, get_snapshot(tasks'))
            /\ resp' = broadcast_resp
            /\ UNCHANGED <<persist_lock, handed>>
       ELSE /\ handed' = handed \cup {FilePayload(get_snapshot(tasks'), snow)}
            /\ persist_lock' = Append(persist_lock, h)
            /\ co' = [co EXCEPT ![h] =
                        [pc |-> IF lock_free(persist_lock) THEN "open"
                                ELSE "lock_wait",
                         snapshot |-> get_snapshot(tasks'),
                         data |-> FilePayload(get_snapshot(tasks'), snow)]]
            /\ resp' = [code |-> 0]
            /\ sending' = sending
  /\ UNCHANGED <<snow, settings, disk, watchers, inbox>>
  /\ UNCHANGED <<app, boots, cleanup_task, tmp, ws, watch_order>>

\* write_snapshot, on the executor's thread: tmp_path.open("w")
write_open(h) ==
  /\ app = "up"
  /\ co[h].pc = "open"
  /\ req' = [op |-> "write_open", h |-> h]
  /\ resp' = [code |-> 0]
  /\ tmp' = Some(<<>>)
  /\ co' = [co EXCEPT ![h].pc = "first"]
  /\ UNCHANGED <<tasks, snow, settings, disk, watchers, inbox, hist>>
  /\ UNCHANGED <<app, boots, cleanup_task, persist_lock, handed, ws, sending,
                 watch_order>>

\* write_snapshot: target.write(json_payload), half by half
write_half(h) ==
  /\ app = "up"
  /\ co[h].pc \in {"first", "second"}
  /\ req' = [op |-> "write_half", h |-> h]
  /\ resp' = [code |-> 0]
  /\ tmp' = IF co[h].pc = "first"
              THEN Some(WriteAt(TmpContent, 1, FirstHalf(co[h].data)))
              ELSE Some(WriteAt(TmpContent, 2, SecondHalf(co[h].data)))
  /\ co' = [co EXCEPT ![h].pc = IF co[h].pc = "first" THEN "second"
                                ELSE "replace"]
  /\ UNCHANGED <<tasks, snow, settings, disk, watchers, inbox, hist>>
  /\ UNCHANGED <<app, boots, cleanup_task, persist_lock, handed, ws, sending,
                 watch_order>>

\* write_snapshot: tmp_path.replace(path)
write_replace(h) ==
  /\ app = "up"
  /\ co[h].pc = "replace"
  /\ req' = [op |-> "write_replace", h |-> h]
  /\ IF tmp = None
       THEN /\ resp' = [code |-> 500]
            /\ UNCHANGED <<disk, tmp>>
       ELSE /\ resp' = [code |-> 0]
            /\ disk' = FileOf(tmp[1])
            /\ tmp' = None
  /\ co' = [co EXCEPT ![h].pc = "written"]
  /\ UNCHANGED <<tasks, snow, settings, watchers, inbox, hist>>
  /\ UNCHANGED <<app, boots, cleanup_task, persist_lock, handed, ws, sending,
                 watch_order>>

\* write_snapshot raises (disk full, permissions, ...) where it stands
write_fails(h) ==
  /\ app = "up"
  /\ co[h].pc \in {"open", "first", "second", "replace"}
  /\ req' = [op |-> "write_fails", h |-> h]
  /\ resp' = [code |-> 500]
  /\ co' = [co EXCEPT ![h].pc = "written"]
  /\ UNCHANGED <<tasks, snow, settings, disk, watchers, inbox, hist>>
  /\ UNCHANGED <<app, boots, cleanup_task, persist_lock, tmp, handed, ws,
                 sending, watch_order>>

\* persist_state resumes after run_in_executor (the exception, if any, is
\* logged), releases persist_lock to the first waiter and returns;
\* broadcast starts
persist_returns(h) ==
  /\ app = "up"
  /\ co[h].pc = "written"
  /\ req' = [op |-> "persist_returns", h |-> h]
  /\ resp' = broadcast_resp
  /\ persist_lock' = Remove(persist_lock, h)
  /\ co' = [g \in Handlers |->
              IF g = h THEN broadcast_co(co[h].snapshot)
              ELSE IF /\ persist_lock' # <<>>
                      /\ g = Head(persist_lock')
                      /\ co[g].pc = "lock_wait"
                     THEN [co[g] EXCEPT !.pc = "open"]
              ELSE co[g]]
  /\ sending' = broadcast_sending(sending, h, co[h].snapshot)
  /\ UNCHANGED <<tasks, snow, settings, disk, watchers, inbox, hist>>
  /\ UNCHANGED <<app, boots, cleanup_task, tmp, handed, ws, watch_order>>

\* the oldest pending send_json on socket w returns: the message has
\* reached the peer, or the call raises because the peer is gone.  A
\* handler's broadcast goes on to its next watcher, or discards its dead
\* watchers and returns; watch() goes on to receive_text, or leaves through
\* its finally clause.
send_json_returns(w) ==
  LET e == Head(sending[w])
      ok == ws[w].up
      rest == [sending EXCEPT ![w] = Tail(@)]
      ws1 == IF ok THEN [ws EXCEPT ![w].received = Append(@, e)] ELSE ws
  IN /\ app = "up"
     /\ sending[w] # <<>>
     /\ req' = [op |-> "send_json_returns", w |-> w, by |-> e.by, ok |-> ok]
     /\ IF e.by \in Sockets
          THEN /\ ws' = [ws1 EXCEPT ![w].pc = IF ok THEN "receiving"
                                              ELSE "ended"]
               /\ watch_order' = IF ok THEN watch_order
                                 ELSE Remove(watch_order, w)
               /\ sending' = rest
               /\ co' = co
               /\ resp' = [code |-> 0]
          ELSE LET h == e.by
                   dead == IF ok THEN co[h].dead ELSE co[h].dead \cup {w}
                   todo == after_send(co[h].todo, ok)
               IN /\ ws' = ws1
                  /\ IF todo # <<>>
                       THEN /\ co' = [co EXCEPT ![h].todo = todo,
                                                ![h].dead = dead]
                            /\ sending' = call_send(rest, Head(todo), h,
                                                    e.payload)
                            /\ watch_order' = watch_order
                            /\ resp' = [code |-> 0]
                       ELSE /\ co' = [co EXCEPT ![h] = IdleCo]
                            /\ sending' = rest
                            /\ watch_order' =
                                 SelectSeq(watch_order, LAMBDA x: x \notin dead)
                            /\ resp' = [code |-> 200, list |-> co[h].list,
                                        dead |-> dead,
                                        payload |-> e.payload]
     /\ watchers' = Range(watch_order')
     /\ UNCHANGED <<tasks, snow, settings, disk, inbox, hist>>
     /\ UNCHANGED <<app, boots, cleanup_task, persist_lock, tmp, handed>>

\* watch: whether the websocket is in the watcher set while accept is
\* awaited
joined_before_accept(order, w) == Append(order, w)
order_while_accepting(order, w) == order

\* watch up to `await ws.accept()`; no token is configured
ws_connect(w) ==
  /\ app = "up"
  /\ ws[w].pc = "new"
  /\ settings.api_tokens = {}
  /\ req' = [op |-> "ws_connect", w |-> w]
  /\ resp' = [code |-> 0]
  /\ ws' = [ws EXCEPT ![w] = [pc |-> "accepting", up |-> TRUE,
                              received |-> <<>>]]
  /\ watch_order' = order_while_accepting(watch_order, w)
  /\ watchers' = Range(watch_order')
  /\ UNCHANGED <<tasks, snow, settings, disk, inbox, hist>>
  /\ UNCHANGED <<app, boots, cleanup_task, co, persist_lock, tmp, handed,
                 sending>>

\* watch from the return of accept to the await in send_json: the
\* websocket joins the watcher set, the snapshot is taken and its send is
\* called
ws_accepted(w) ==
  /\ app = "up"
  /\ ws[w].pc = "accepting"
  /\ req' = [op |-> "ws_accepted", w |-> w]
  /\ resp' = [code |-> 101]
  /\ watch_order' \in OrdersAfterAdd(Remove(watch_order, w), w)
  /\ watchers' = Range(watch_order')
  /\ ws' = [ws EXCEPT ![w].pc = "initial"]
  /\ sending' = call_send(sending, w, w, Payload(get_snapshot(tasks)))
  /\ UNCHANGED <<tasks, snow, settings, disk, inbox, hist>>
  /\ UNCHANGED <<app, boots, cleanup_task, co, persist_lock, tmp, handed>>

\* the peer of an accepted websocket goes away
peer_gone(w) ==
  /\ app = "up"
  /\ ws[w].pc \in {"initial", "receiving"}
  /\ ws[w].up
  /\ req' = [op |-> "peer_gone", w |-> w]
  /\ resp' = [code |-> 0]
  /\ ws' = [ws EXCEPT ![w].up = FALSE]
  /\ UNCHANGED <<tasks, snow, settings, disk, watchers, inbox, hist>>
  /\ UNCHANGED <<app, boots, cleanup_task, co, persist_lock, tmp, handed,
                 sending, watch_order>>

\* watch: receive_text raises on the lost peer; `finally` discards the
\* websocket
receive_ends(w) ==
  /\ app = "up"
  /\ ws[w].pc = "receiving"
  /\ ~ws[w].up
  /\ req' = [op |-> "receive_ends", w |-> w]
  /\ resp' = [code |-> 1000]
  /\ ws' = [ws EXCEPT ![w].pc = "ended"]
  /\ watch_order' = Remove(watch_order, w)
  /\ watchers' = Range(watch_order')
  /\ UNCHANGED <<tasks, snow, settings, disk, inbox, hist>>
  /\ UNCHANGED <<app, boots, cleanup_task, co, persist_lock, tmp, handed,
                 sending>>

\* the process is killed where it stands: memory, coroutines, the
\* executor's thread and the connections are gone, the files stay
process_killed ==
  /\ app = "up"
  /\ req' = [op |-> "killed"]
  /\ resp' = [code |-> 0]
  /\ app' = "down"
  /\ cleanup_task' = "none"
  /\ tasks' = EmptyDict
  /\ watchers' = {}
  /\ watch_order' = <<>>
  /\ co' = [h \in Handlers |-> IdleCo]
  /\ persist_lock' = <<>>
  /\ sending' = [w \in Sockets |-> <<>>]
  /\ ws' = [w \in Sockets |->
              IF ws[w].pc = "new" THEN ws[w] ELSE [ws[w] EXCEPT !.pc = "ended"]]
  /\ UNCHANGED <<snow, settings, disk, inbox, hist, boots, tmp, handed>>

\* `snapshot = await get_snapshot(); await persist_state(snapshot);
\*  await broadcast(snapshot)` up to the first suspension, as the three
\* lines follow a change of the registry in delete_task and cleanup_loop
start_publish(h, snapshot) ==
  IF ~settings.storage
    THEN /\ co' = [co EXCEPT ![h] = broadcast_co(snapshot)]
         /\ sending' = broadcast_sending(sending, h, snapshot)
         /\ UNCHANGED <<persist_lock, handed>>
    ELSE /\ handed' = handed \cup {FilePayload(snapshot, snow)}
         /\ persist_lock' = Append(persist_lock, h)
         /\ co' = [co EXCEPT ![h] =
                     [pc |-> IF lock_free(persist_lock) THEN "open"
                             ELSE "lock_wait",
                      snapshot |-> snapshot,
                      data |-> FilePayload(snapshot, snow)]]
         /\ sending' = sending

\* DELETE /tasks/{task_id} up to its first suspension; when nothing was
\* removed it returns at once
delete_pop(h, id) ==
  /\ app = "up"
  /\ co[h].pc = "idle"
  /\ require_token(<<None, None>>)
  /\ req' = [op |-> "delete_pop", h |-> h, id |-> id]
  /\ resp' = [code |-> 0, removed |-> id \in DOMAIN tasks]
  /\ tasks' = Pop(tasks, id)
  /\ IF id \in DOMAIN tasks
       THEN start_publish(h, get_snapshot(tasks'))
       ELSE UNCHANGED <<co, sending, persist_lock, handed>>
  /\ UNCHANGED <<snow, settings, disk, watchers, inbox, hist>>
  /\ UNCHANGED <<app, boots, cleanup_task, tmp, ws, watch_order>>

\* the coroutine slot cleanup_loop runs in
CleanupCo == "h2"

\* cleanup_loop: the ids removed and the ids marked in the block under
\* state_lock
swept_removed_none(ts, now) == {}
swept_removed(ts, now) == close_retention_ids(ts, now) \cup max_age_ids(ts, now)
swept_marked(ts, now) == stale_marked_ids(ts, now)
swept(ts, now) ==
  PopAll([id \in DOMAIN ts |->
            IF id \in swept_marked(ts, now) THEN mark_stale(ts[id], now)
            ELSE ts[id]],
         swept_removed(ts, now))

\* cleanup_loop from the return of asyncio.sleep to its next suspension:
\* the block under state_lock and, if it changed anything, the snapshot
\* and persist_state or broadcast up to their first await; else the loop
\* is back at its sleep
sweep_apply(c) ==
  /\ app = "up"
  /\ cleanup_task = "running"
  /\ co[c].pc = "idle"
  /\ cleanup_task' = cleanup_after(cycle_raises(tasks, snow))
  /\ IF cycle_raises(tasks, snow)
       THEN /\ req' = [op |-> "sweep_raised", h |-> c]
            /\ resp' = [code |-> 500]
            /\ \E done \in SUBSET marked_before_raise(tasks, snow):
                 tasks' = [id \in DOMAIN tasks |->
                             IF id \in done THEN mark_stale(tasks[id], snow)
                             ELSE tasks[id]]
            /\ UNCHANGED <<co, sending, persist_lock, handed>>
       ELSE /\ req' = [op |-> "sweep_apply", h |-> c]
            /\ resp' = [removed |-> swept_removed(tasks, snow),
                        marked |-> swept_marked(tasks, snow)]
            /\ tasks' = swept(tasks, snow)
            /\ IF swept_removed(tasks, snow) \cup swept_marked(tasks, snow) # {}
                 THEN start_publish(c, get_snapshot(tasks'))
                 ELSE UNCHANGED <<co, sending, persist_lock, handed>>
  /\ UNCHANGED <<snow, settings, disk, watchers, inbox, hist>>
  /\ UNCHANGED <<app, boots, tmp, ws, watch_order>>

\* _shutdown: cleanup_task.cancel().  CancelledError is raised in
\* cleanup_loop at the await it is suspended in and leaves through the
\* `except asyncio.CancelledError` clause: a wait for persist_lock is given
\* up, a held persist_lock is released to the first waiter, a pending
\* send_json is abandoned.  The executor thread of an interrupted write is
\* not followed further.
shutdown_cancel(c) ==
  /\ app = "up"
  /\ cleanup_task = "running"
  /\ cleanup_task' = "cancelled"
  /\ req' = [op |-> "shutdown", h |-> c]
  /\ resp' = [code |-> 0, at |-> co[c].pc]
  /\ persist_lock' = Remove(persist_lock, c)
  /\ co' = [g \in Handlers |->
              IF g = c THEN IdleCo
              ELSE IF /\ persist_lock' # <<>>
                      /\ g = Head(persist_lock')
                      /\ co[g].pc = "lock_wait"
                     THEN [co[g] EXCEPT !.pc = "open"]
              ELSE co[g]]
  /\ sending' = [w \in Sockets |-> SelectSeq(sending[w], LAMBDA e: e.by # c)]
  /\ UNCHANGED <<tasks, snow, settings, disk, watchers, inbox, hist>>
  /\ UNCHANGED <<app, boots, tmp, handed, ws, watch_order>>

\* ------------------------------------------------------------------ locks
\* app.state.state_lock, watchers_lock and persist_lock
Locks == {"state_lock", "watchers_lock", "persist_lock"}
Acq(l) == <<"acquire", l>>
Rel(l) == <<"release", l>>
\* `async with l:` around a block that contains no await
Under(l) == <<Acq(l), Rel(l)>>

\* the locks a coroutine holds while it is suspended at pc: persist_lock
\* around run_in_executor, none at any other await
LocksHeld(pc) ==
  IF pc \in {"open", "first", "second", "replace", "written"}
    THEN {"persist_lock"}
    ELSE {}

\* broadcast up to its first send_json, and after its last one
broadcast_locks == Under("watchers_lock")
discard_locks(dead) == IF dead # {} THEN Under("watchers_lock") ELSE <<>>

\* persist_state(snapshot) and broadcast(snapshot) up to the first
\* suspension: with a storage path persist_lock is acquired, or waited for
\* when it is taken; without one persist_state returns and broadcast runs
publish_locks(storage, got_lock) ==
  IF storage
    THEN (IF got_lock THEN <<Acq("persist_lock")>> ELSE <<>>)
    ELSE broadcast_locks

\* a handler or the cleanup loop from its change of the registry to its
\* first suspension: the block under state_lock, get_snapshot, and the
\* publication
change_locks_nested(storage, got_lock) ==
  <<Acq("state_lock")>> \o publish_locks(storage, got_lock)
    \o <<Rel("state_lock")>>
change_locks(storage, got_lock) ==
  Under("state_lock") \o Under("state_lock") \o publish_locks(storage, got_lock)

\* persist_state from the return of run_in_executor: persist_lock is
\* released, broadcast starts
persist_exit_locks == <<Rel("persist_lock")>> \o broadcast_locks

\* watch from the return of accept to its send_json: the websocket joins
\* the watcher set, get_snapshot
watch_locks == Under("watchers_lock") \o Under("state_lock")

\* a coroutine cancelled at pc leaves its `async with` blocks
cancel_locks(pc) ==
  IF "persist_lock" \in LocksHeld(pc) THEN <<Rel("persist_lock")>> ELSE <<>>

\* ---------------------------------------------------------------- patch.py
\* A class: its kind, its base classes and, for the classes make_remote_tqdm
\* creates, the order of creation, which tells two of them apart.
Class(kind, bases, id) == [kind |-> kind, bases |-> bases, id |-> id]
\* tqdm.std.tqdm and tqdm.asyncio.tqdm_asyncio as the tqdm package defines
\* them
StdTqdm == Class("tqdm", <<>>, 0)
AsyncioTqdm == Class("tqdm_asyncio", <<StdTqdm>>, 0)

\* issubclass(cls, RemoteTqdmMixin)
RECURSIVE IsRemote(_)
IsRemote(cls) ==
  \/ cls.kind = "Remote"
  \/ \E i \in 1..Len(cls.bases): IsRemote(cls.bases[i])

\* getattr(cls, "_remote_defaults", {}): the class's own attribute, else
\* the one of the first base that has it
RECURSIVE getattr_defaults(_, _)
getattr_defaults(defs, cls) ==
  IF cls \in DOMAIN defs THEN defs[cls]
  ELSE LET having == {i \in 1..Len(cls.bases):
                        IsRemote(cls.bases[i])}
       IN IF having = {} THEN EmptyDict
          ELSE getattr_defaults(defs,
                 cls.bases[CHOOSE i \in having: \A j \in having: i <= j])

\* {**current, **defaults}
Merged(current, defaults) ==
  [k \in DOMAIN current \cup DOMAIN defaults |->
     IF k \in DOMAIN defaults THEN defaults[k] ELSE current[k]]

\* make_remote_tqdm: type("Remote...", (RemoteTqdmMixin, base_cls), attrs)
NextId(defs) == Cardinality({c \in DOMAIN defs: c.kind = "Remote"}) + 1
make_remote_tqdm(defs, base_cls) == Class("Remote", <<base_cls>>, NextId(defs))

\* the targets of install, in the order of its loop
Targets ==
  <<"tqdm", "tqdm.std", "tqdm.asyncio", "tqdm.auto", "tqdm.autonotebook",
    "tqdm.notebook">>
\* the modules a program may import by itself after progressista.patch
Importable == {"tqdm.auto", "tqdm.notebook"}

\* importlib.import_module(name), outside a notebook kernel: a module in
\* sys.modules is returned as it is; else its body runs and binds its
\* `tqdm` from what the modules it imports from are bound to at that
\* moment: tqdm.autonotebook takes tqdm.std's, tqdm.notebook subclasses
\* tqdm.std's, tqdm.auto imports tqdm.autonotebook and takes
\* tqdm.asyncio's unless tqdm.autonotebook's differs from tqdm.std's
import_autonotebook(mods) ==
  IF "tqdm.autonotebook" \in DOMAIN mods THEN mods
  ELSE Put(mods, "tqdm.autonotebook", mods["tqdm.std"])
import_module(mods, name) ==
  IF name \in DOMAIN mods THEN mods
  ELSE IF name = "tqdm.autonotebook" THEN import_autonotebook(mods)
  ELSE IF name = "tqdm.notebook"
    THEN Put(mods, name, Class("tqdm_notebook", <<mods["tqdm.std"]>>, 0))
  ELSE LET m1 == import_autonotebook(mods) IN
       Put(m1, name,
           IF m1["tqdm.autonotebook"] # m1["tqdm.std"]
             THEN Class("tqdm", <<m1["tqdm.autonotebook"],
                                  m1["tqdm.asyncio"]>>, 0)
             ELSE m1["tqdm.asyncio"])

\* the interpreter after `import progressista.patch`: client.py has
\* imported tqdm, which imports tqdm.std and tqdm.asyncio, and has made
\* RemoteTqdm; nothing is patched
PatchIdle ==
  /\ sys_modules = [m \in {"tqdm", "tqdm.std", "tqdm.asyncio"} |->
                      IF m = "tqdm.asyncio" THEN AsyncioTqdm ELSE StdTqdm]
  /\ PATCHED = EmptyDict
  /\ remote_defaults = [c \in {Class("Remote", <<StdTqdm>>, 1)} |-> EmptyDict]
  /\ ninstall = 0
  /\ pcall = "import progressista.patch"

\* install: one turn of its loop, on the interpreter state st
\* = [mods, patched, defs]
patch_target(st, name, defaults) ==
  LET mods == import_module(st.mods, name)
      original == mods[name]
      remote_cls == make_remote_tqdm(st.defs, original)
  IN IF IsRemote(original)
       THEN [st EXCEPT
               !.mods = mods,
               !.defs = IF defaults # EmptyDict
                          THEN Put(st.defs, original,
                                   Merged(getattr_defaults(st.defs, original),
                                          defaults))
                          ELSE st.defs]
       ELSE [mods |-> Put(mods, name, remote_cls),
             patched |-> SetDefault(st.patched, name, original),
             defs |-> Put(st.defs, remote_cls, defaults)]

RECURSIVE patch_targets(_, _, _)
patch_targets(st, names, defaults) ==
  IF names = <<>> THEN st
  ELSE patch_targets(patch_target(st, Head(names), defaults), Tail(names),
                     defaults)

\* install(**defaults).  The closing loop sets tqdm.tqdm to the object it
\* is bound to already.
install(defaults) ==
  LET st == patch_targets([mods |-> sys_modules, patched |-> PATCHED,
                           defs |-> remote_defaults], Targets, defaults)
  IN /\ ninstall < MaxInstalls
     /\ ninstall' = ninstall + 1
     /\ sys_modules' = Put(st.mods, "tqdm", st.mods["tqdm"])
     /\ PATCHED' = st.patched
     /\ remote_defaults' = st.defs
     /\ pcall' = "install"

\* uninstall(): every recorded module gets its original back, and the
\* record is cleared.  The recorded modules are in sys.modules.
uninstall ==
  /\ sys_modules' = [m \in DOMAIN sys_modules |->
                       IF m \in DOMAIN PATCHED THEN PATCHED[m]
                       ELSE sys_modules[m]]
  /\ PATCHED' = EmptyDict
  /\ pcall' = "uninstall"
  /\ UNCHANGED <<remote_defaults, ninstall>>

\* the program imports an optional tqdm module that is not imported yet
import_tqdm(name) ==
  /\ name \notin DOMAIN sys_modules
  /\ sys_modules' = import_module(sys_modules, name)
  /\ pcall' = "import"
  /\ UNCHANGED <<PATCHED, remote_defaults, ninstall>>

\* ---------------------------------------------------------- specifications
\* ServerSettings with no tokens, no storage path and every sweep policy off
BaseSettings ==
  [api_tokens |-> {}, retention_seconds |-> 0, stale_seconds |-> 0,
   max_task_age |-> 0, storage |-> FALSE]

\* an emitter that is never constructed further
ClientIdle == ClientInit /\ push_every = 0

\* The emitter alone.
ClientNext ==
  \/ start_worker /\ UNCHANGED <<svars, xvars, pvars>>
  \/ init_emit /\ UNCHANGED <<svars, xvars, pvars>>
  \/ update /\ UNCHANGED <<svars, xvars, pvars>>
  \/ close_enter /\ UNCHANGED <<svars, xvars, pvars>>
  \/ close_emit /\ UNCHANGED <<svars, xvars, pvars>>
  \/ close_set_stop /\ UNCHANGED <<svars, xvars, pvars>>
  \/ close_join /\ UNCHANGED <<svars, xvars, pvars>>
  \/ worker_check /\ UNCHANGED <<svars, xvars, pvars>>
  \/ worker_get /\ UNCHANGED <<svars, xvars, pvars>>
  \/ worker_posted /\ UNCHANGED <<svars, xvars, pvars>>
  \/ worker_drain /\ UNCHANGED <<svars, xvars, pvars>>
  \/ worker_flush /\ UNCHANGED <<svars, xvars, pvars>>
  \/ worker_flush_posted /\ UNCHANGED <<svars, xvars, pvars>>
  \/ client_tick /\ UNCHANGED <<svars, xvars, pvars>>

ClientSpecInit == ClientInit /\ ServerInit({BaseSettings}) /\ XIdle /\ PatchIdle
ClientSpec ==
  /\ ClientSpecInit
  /\ [][ClientNext]_vars

\* a ProgressEvent
Event(id, desc, total, n, unit, status, timestamp, meta) ==
  [task_id |-> id, desc |-> desc, total |-> total, n |-> n, unit |-> unit,
   status |-> status, timestamp |-> timestamp, meta |-> meta]

\* The merge alone: events into an empty registry.  The k-th merged event
\* carries the value k in each field it carries.
Fields == {"desc", "total", "n", "unit", "meta"}
CarrySets == {{}} \cup {{f}: f \in Fields} \cup {Fields}
Carried(c, f, v) == IF f \in c THEN Some(v) ELSE None
MergeEvent(id, c, st, tok, k) ==
  Event(id, Carried(c, "desc", k), Carried(c, "total", k), Carried(c, "n", k),
        Carried(c, "unit", k), st, None,
        Carried(c, "meta", IF tok THEN [k |-> k, _token |-> "good"]
                                  ELSE [k |-> k]))
MergeStatuses == {None}

MergeNext ==
  \/ /\ Len(hist) < MaxMerges
     /\ \E id \in TaskIds, c \in CarrySets, st \in MergeStatuses:
        \E tok \in {t \in BOOLEAN: t => "meta" \in c}:
          progress(MergeEvent(id, c, st, tok, Len(hist) + 1), None, None,
                   TRUE, {}, TRUE)
     /\ UNCHANGED <<cvars, xvars, pvars>>
  \/ server_tick /\ UNCHANGED <<cvars, xvars, pvars>>

MergeSpecInit == ClientIdle /\ ServerInit({BaseSettings}) /\ XIdle /\ PatchIdle
MergeSpec ==
  /\ MergeSpecInit
  /\ [][MergeNext]_vars

\* The token check: requests with every placement of good and bad tokens,
\* with and without configured tokens.
AuthSettings ==
  {[BaseSettings EXCEPT !.api_tokens = toks, !.storage = TRUE]:
     toks \in {{}, {"good"}}}
Tokens == {None, Some("good"), Some("bad")}
Header(sc, cr) == Some([scheme |-> sc, cred |-> cr])
Headers ==
  {None, Header("Bearer", "good"), Header("bearer", "good"),
   Header("Bearer", "bad"), Header("Basic", "good"), Header("Bearer", "")}
AuthMetas == {None, Some([_token |-> "good"]), Some([_token |-> "bad"])}
AuthEvent(id, n, st, meta) == Event(id, None, None, n, None, st, None, meta)

AuthNext ==
  \/ /\ \E id \in {"t1"}, st \in {None, Some("close")},
          meta \in AuthMetas, q \in Tokens, h \in Headers:
          progress(AuthEvent(id, None, st, meta), q, h, TRUE, {}, FALSE)
     /\ UNCHANGED <<cvars, xvars, pvars>>
  \/ /\ \E id \in TaskIds, q \in Tokens, h \in Headers:
          delete_task(id, q, h, TRUE, {})
     /\ UNCHANGED <<cvars, xvars, pvars>>
  \/ /\ \E st \in {None, Some("close")}, q \in Tokens, h \in Headers:
          bulk_delete_tasks(st, None, q, h, TRUE, {})
     /\ UNCHANGED <<cvars, xvars, pvars>>
  \/ /\ \E w \in WatcherIds, q \in Tokens, h \in Headers: watch(w, q, h)
     /\ UNCHANGED <<cvars, xvars, pvars>>
  \/ /\ \E w \in WatcherIds: watch_closed(w)
     /\ UNCHANGED <<cvars, xvars, pvars>>

AuthSpecInit == ClientIdle /\ ServerInit(AuthSettings) /\ XIdle /\ PatchIdle
AuthSpec ==
  /\ AuthSpecInit
  /\ [][AuthNext]_vars

\* The sweeper against merges, with each policy on or off.
SweepSetting(r, m, st) ==
  [BaseSettings EXCEPT !.retention_seconds = r, !.max_task_age = m,
                       !.stale_seconds = st, !.storage = TRUE]
SweepSettings ==
  {SweepSetting(1, 0, 0), SweepSetting(0, 0, 1), SweepSetting(0, 2, 1),
   SweepSetting(1, 2, 1), SweepSetting(1, 0, 1)}
SweepStatuses == {None, Some("close")}

SweepNext ==
  \/ /\ \E id \in TaskIds, st \in SweepStatuses:
          progress(AuthEvent(id, None, st, None), None, None, TRUE, {}, FALSE)
     /\ UNCHANGED <<cvars, xvars, pvars>>
  \/ sweep(TRUE, {}) /\ UNCHANGED <<cvars, xvars, pvars>>
  \/ server_tick /\ UNCHANGED <<cvars, xvars, pvars>>

SweepSpecInit == ClientIdle /\ ServerInit(SweepSettings) /\ XIdle /\ PatchIdle
SweepSpec ==
  /\ SweepSpecInit
  /\ [][SweepNext]_vars

\* Restarts: a process that starts on whatever file it finds, serves, is
\* swept, exits and starts again, with writes that may fail.
RecoverSettings == {SweepSetting(0, 0, 1), SweepSetting(1, 2, 0)}
ForeignTasks ==
  {[t2 |-> [status |-> "update", updated_at |-> NotANumber]],
   [t2 |-> [n |-> 1]],
   [t2 |-> [status |-> "close", updated_at |-> 0]],
   [t1 |-> [status |-> "update", updated_at |-> 0],
    t2 |-> [status |-> "update", updated_at |-> NotANumber]]}
InitialFiles ==
  {None, Some([torn |-> <<>>]), Some([saved_at |-> 0]), Some([array |-> <<>>])}
    \cup {Some([tasks |-> ts, saved_at |-> 0]): ts \in ForeignTasks}

RecoverInit ==
  /\ ClientIdle
  /\ XInit("down")
  /\ PatchIdle
  /\ tasks = EmptyDict
  /\ snow = 0
  /\ settings \in RecoverSettings
  /\ disk \in InitialFiles
  /\ watchers = {}
  /\ inbox = [w \in WatcherIds |-> None]
  /\ req = [op |-> "boot"]
  /\ resp = [code |-> 0]
  /\ hist = <<>>

RecoverNext ==
  \/ create_app /\ UNCHANGED <<cvars, pvars>>
  \/ process_exit /\ UNCHANGED <<cvars, pvars>>
  \/ /\ app = "up"
     /\ \E st \in SweepStatuses:
          progress(AuthEvent("t1", None, st, None), None, None, TRUE, {}, FALSE)
     /\ UNCHANGED <<cvars, xvars, pvars>>
  \/ cleanup_cycle(TRUE, {}) /\ UNCHANGED <<cvars, pvars>>
  \/ server_tick /\ UNCHANGED <<cvars, xvars, pvars>>

RecoverSpec ==
  /\ RecoverInit
  /\ [][RecoverNext]_vars

\* Failing writes: a process that starts on a missing, unreadable or valid
\* file and serves a watcher while any write of the snapshot may fail.
FailFiles ==
  {None, Some([torn |-> <<>>]), Some([saved_at |-> 0]), Some([array |-> <<>>]),
   Some([tasks |-> [t2 |-> [task_id |-> "t2", created_at |-> 0,
                            updated_at |-> 0, n |-> 0, total |-> None,
                            status |-> "close", done_at |-> 0]],
         saved_at |-> 0])}

FailInit ==
  /\ ClientIdle
  /\ XInit("down")
  /\ PatchIdle
  /\ tasks = EmptyDict
  /\ snow = 0
  /\ settings = SweepSetting(0, 0, 1)
  /\ disk \in FailFiles
  /\ watchers = {}
  /\ inbox = [w \in WatcherIds |-> None]
  /\ req = [op |-> "boot"]
  /\ resp = [code |-> 0]
  /\ hist = <<>>

FailNext ==
  \/ create_app /\ UNCHANGED <<cvars, pvars>>
  \/ /\ app = "up"
     /\ \E st \in SweepStatuses, wok \in BOOLEAN:
          progress(AuthEvent("t1", None, st, None), None, None, wok, {}, FALSE)
     /\ UNCHANGED <<cvars, xvars, pvars>>
  \/ /\ app = "up"
     /\ \E id \in TaskIds, wok \in BOOLEAN: delete_task(id, None, None, wok, {})
     /\ UNCHANGED <<cvars, xvars, pvars>>
  \/ /\ \E wok \in BOOLEAN: cleanup_cycle(wok, {})
     /\ UNCHANGED <<cvars, pvars>>
  \/ /\ app = "up"
     /\ \E w \in WatcherIds: watch(w, None, None)
     /\ UNCHANGED <<cvars, xvars, pvars>>
  \/ server_tick /\ UNCHANGED <<cvars, xvars, pvars>>

FailSpec ==
  /\ FailInit
  /\ [][FailNext]_vars

\* The snapshot file: concurrent merges whose writes run step by step, may
\* fail, and may be cut short by the death of the process.
StoredSettings == [BaseSettings EXCEPT !.storage = TRUE]
\* the k-th merge carries n = k
CountedEvent(k) == AuthEvent("t1", Some(k), None, None)

PersistNext ==
  \/ /\ Len(hist) < MaxMerges
     /\ \E h \in Handlers: progress_merge(h, CountedEvent(Len(hist) + 1))
     /\ UNCHANGED <<cvars, pvars>>
  \/ (\E h \in Handlers: write_open(h)) /\ UNCHANGED <<cvars, pvars>>
  \/ (\E h \in Handlers: write_half(h)) /\ UNCHANGED <<cvars, pvars>>
  \/ (\E h \in Handlers: write_replace(h)) /\ UNCHANGED <<cvars, pvars>>
  \/ (\E h \in Handlers: write_fails(h)) /\ UNCHANGED <<cvars, pvars>>
  \/ (\E h \in Handlers: persist_returns(h)) /\ UNCHANGED <<cvars, pvars>>
  \/ process_killed /\ UNCHANGED <<cvars, pvars>>
  \/ create_app /\ UNCHANGED <<cvars, pvars>>

PersistSpecInit == ClientIdle /\ ServerInit({StoredSettings}) /\ XIdle /\ PatchIdle
PersistSpec ==
  /\ PersistSpecInit
  /\ [][PersistNext]_vars

\* The broadcast hub: concurrent merges publishing to websockets that
\* connect, are slow, and go away.
BroadcastNext ==
  \/ /\ Len(hist) < MaxMerges
     /\ \E h \in Handlers: progress_merge(h, CountedEvent(Len(hist) + 1))
     /\ UNCHANGED <<cvars, pvars>>
  \/ (\E h \in Handlers: write_open(h)) /\ UNCHANGED <<cvars, pvars>>
  \/ (\E h \in Handlers: write_half(h)) /\ UNCHANGED <<cvars, pvars>>
  \/ (\E h \in Handlers: write_replace(h)) /\ UNCHANGED <<cvars, pvars>>
  \/ (\E h \in Handlers: persist_returns(h)) /\ UNCHANGED <<cvars, pvars>>
  \/ (\E w \in Sockets: send_json_returns(w)) /\ UNCHANGED <<cvars, pvars>>
  \/ (\E w \in Sockets: ws_connect(w)) /\ UNCHANGED <<cvars, pvars>>
  \/ (\E w \in Sockets: ws_accepted(w)) /\ UNCHANGED <<cvars, pvars>>
  \/ (\E w \in Sockets: peer_gone(w)) /\ UNCHANGED <<cvars, pvars>>
  \/ (\E w \in Sockets: receive_ends(w)) /\ UNCHANGED <<cvars, pvars>>

BroadcastSpecInit ==
  ClientIdle /\ ServerInit({BaseSettings, StoredSettings}) /\ XIdle /\ PatchIdle
BroadcastSpec ==
  /\ BroadcastSpecInit
  /\ [][BroadcastNext]_vars

\* The sweeper left to run: a process that starts on whatever file it
\* finds and serves while the clock and the cleanup timer keep going.
LiveSettings == {SweepSetting(1, 0, 0), SweepSetting(1, 2, 0)}

LiveInit ==
  /\ ClientIdle
  /\ XInit("down")
  /\ PatchIdle
  /\ tasks = EmptyDict
  /\ snow = 0
  /\ settings \in LiveSettings
  /\ disk \in InitialFiles
  /\ watchers = {}
  /\ inbox = [w \in WatcherIds |-> None]
  /\ req = [op |-> "boot"]
  /\ resp = [code |-> 0]
  /\ hist = <<>>

LiveStart == create_app /\ UNCHANGED <<cvars, pvars>>
LiveSweep == cleanup_cycle(TRUE, {}) /\ UNCHANGED <<cvars, pvars>>
LiveTick == server_tick /\ UNCHANGED <<cvars, xvars, pvars>>
LiveNext ==
  \/ LiveStart
  \/ /\ app = "up"
     /\ \E st \in SweepStatuses:
          progress(AuthEvent("t1", None, st, None), None, None, TRUE, {}, FALSE)
     /\ UNCHANGED <<cvars, xvars, pvars>>
  \/ LiveSweep
  \/ LiveTick

\* the process is started, asyncio.sleep(cleanup_interval) returns each
\* time it is awaited, and time passes
LiveSpec ==
  /\ LiveInit
  /\ [][LiveNext]_vars
  /\ WF_vars(LiveStart)
  /\ WF_vars(LiveSweep)
  /\ WF_vars(LiveTick)

\* The hub with its sweeper: one request handler that merges into and
\* deletes one task, and the cleanup loop, until and after the shutdown
\* cancels the cleanup loop; either with a storage path and no watcher, or
\* without a storage path and with one websocket that stays.
HubSettings ==
  {[SweepSetting(1, 0, 1) EXCEPT !.storage = st]: st \in BOOLEAN}
RequestCo == "h1"

HubNext ==
  \/ /\ Len(hist) < MaxMerges
     /\ \E st \in SweepStatuses:
          progress_merge(RequestCo, AuthEvent("t1", None, st, None))
     /\ UNCHANGED <<cvars, pvars>>
  \/ delete_pop(RequestCo, "t1") /\ UNCHANGED <<cvars, pvars>>
  \/ sweep_apply(CleanupCo) /\ UNCHANGED <<cvars, pvars>>
  \/ shutdown_cancel(CleanupCo) /\ UNCHANGED <<cvars, pvars>>
  \/ (\E h \in Handlers: write_open(h)) /\ UNCHANGED <<cvars, pvars>>
  \/ (\E h \in Handlers: write_half(h)) /\ UNCHANGED <<cvars, pvars>>
  \/ (\E h \in Handlers: write_replace(h)) /\ UNCHANGED <<cvars, pvars>>
  \/ (\E h \in Handlers: persist_returns(h)) /\ UNCHANGED <<cvars, pvars>>
  \/ send_json_returns("w1") /\ UNCHANGED <<cvars, pvars>>
  \/ ~settings.storage /\ ws_connect("w1") /\ UNCHANGED <<cvars, pvars>>
  \/ ws_accepted("w1") /\ UNCHANGED <<cvars, pvars>>
  \/ server_tick /\ UNCHANGED <<cvars, xvars, pvars>>

HubSpecInit == ClientIdle /\ ServerInit(HubSettings) /\ XIdle /\ PatchIdle
HubSpec ==
  /\ HubSpecInit
  /\ [][HubNext]_vars

\* Bulk deletion: tasks of both statuses and several ages, and DELETE /tasks
\* with each filter unset, empty and set.
BulkStatuses == {None, Some(""), Some("close"), Some("update")}
BulkAges == {None, Some(0), Some(1)}

BulkNext ==
  \/ /\ \E id \in TaskIds, st \in SweepStatuses:
          progress(AuthEvent(id, None, st, None), None, None, TRUE, {}, FALSE)
     /\ UNCHANGED <<cvars, xvars, pvars>>
  \/ /\ \E st \in BulkStatuses, older_than \in BulkAges:
          bulk_delete_tasks(st, older_than, None, None, TRUE, {})
     /\ UNCHANGED <<cvars, xvars, pvars>>
  \/ server_tick /\ UNCHANGED <<cvars, xvars, pvars>>

BulkSpecInit == ClientIdle /\ ServerInit({StoredSettings}) /\ XIdle /\ PatchIdle
BulkSpec ==
  /\ BulkSpecInit
  /\ [][BulkNext]_vars

\* ----------------------------------------------------------- settings.py
\* A text is the sequence of its characters; an environment variable is
\* None when unset, else Some of its text.
Whitespace == {" ", "\t"}
Chars == {"a", "b", ","} \cup Whitespace
\* characters in the value of one environment variable
MaxLen == 4
Texts == UNION {[1..n -> Chars]: n \in 0..MaxLen}

\* str.split(","): the pieces between the commas, empty ones included
RECURSIVE split_from(_, _, _)
split_from(text, i, piece) ==
  IF i > Len(text) THEN <<piece>>
  ELSE IF text[i] = "," THEN <<piece>> \o split_from(text, i + 1, <<>>)
  ELSE split_from(text, i + 1, Append(piece, text[i]))
split(text) == split_from(text, 1, <<>>)

\* str.lstrip(), str.rstrip(), str.strip()
RECURSIVE lstrip(_)
lstrip(text) ==
  IF text # <<>> /\ Head(text) \in Whitespace THEN lstrip(Tail(text)) ELSE text
RECURSIVE rstrip(_)
rstrip(text) ==
  IF text # <<>> /\ text[Len(text)] \in Whitespace
    THEN rstrip(SubSeq(text, 1, Len(text) - 1))
    ELSE text
strip_left_only(text) == lstrip(text)
strip(text) == rstrip(lstrip(text))

\* tuple(o.strip() for o in value.split(",") if o.strip())
RECURSIVE stripped_entries(_)
stripped_entries(pieces) ==
  IF pieces = <<>> THEN <<>>
  ELSE (IF strip(Head(pieces)) # <<>> THEN <<strip(Head(pieces))>> ELSE <<>>)
         \o stripped_entries(Tail(pieces))

\* `if value:` on os.getenv's result
Truthy(value) == value # None /\ value[1] # <<>>

\* ServerSettings.__post_init__
post_init_allow_origins(origins) ==
  IF Truthy(origins) THEN stripped_entries(split(origins[1])) ELSE <<>>
post_init_api_tokens(tokens, token) ==
  IF Truthy(tokens) THEN stripped_entries(split(tokens[1]))
  ELSE IF Truthy(token) THEN <<token[1]>>
  ELSE <<>>

\* ServerSettings(): the dataclass is built in the environment req holds
ServerSettings_post_init ==
  /\ req.op = "env"
  /\ req' = [req EXCEPT !.op = "post_init"]
  /\ resp' = [allow_origins |->
                post_init_allow_origins(req.PROGRESSISTA_ALLOW_ORIGINS),
              api_tokens |->
                post_init_api_tokens(req.PROGRESSISTA_API_TOKENS,
                                     req.PROGRESSISTA_API_TOKEN)]
  /\ UNCHANGED <<tasks, snow, settings, disk, watchers, inbox, hist>>

\* The settings alone: every value of one of the two list variables next
\* to an unset or plain value of the other.
EnvValues == {None} \cup {Some(t): t \in Texts}
PlainValues == {None, Some(<<"a">>)}
Environments ==
  {[op |-> "env", PROGRESSISTA_API_TOKENS |-> t,
    PROGRESSISTA_ALLOW_ORIGINS |-> o, PROGRESSISTA_API_TOKEN |-> k]:
     t \in EnvValues, o \in PlainValues, k \in PlainValues}
  \cup
  {[op |-> "env", PROGRESSISTA_API_TOKENS |-> t,
    PROGRESSISTA_ALLOW_ORIGINS |-> o, PROGRESSISTA_API_TOKEN |-> None]:
     t \in PlainValues, o \in EnvValues}

SettingsNext ==
  \/ ServerSettings_post_init /\ UNCHANGED <<cvars, xvars, pvars>>

SettingsSpecInit ==
  /\ ClientIdle
  /\ XInit("down")
  /\ PatchIdle
  /\ tasks = EmptyDict
  /\ snow = 0
  /\ settings = BaseSettings
  /\ disk = None
  /\ watchers = {}
  /\ inbox = [w \in WatcherIds |-> None]
  /\ req \in Environments
  /\ resp = [code |-> 0]
  /\ hist = <<>>
SettingsSpec ==
  /\ SettingsSpecInit
  /\ [][SettingsNext]_vars

\* ------------------------------------------------------- client properties
CountStatus(st) == Cardinality({i \in 1..Len(sent): sent[i].status = st})
SentSeqs == {sent[i].seq: i \in 1..Len(sent)}
\* The patch: a program that imports optional tqdm modules, installs the
\* patch with and without defaults, and uninstalls it, in any order.
DefaultsChoices == {EmptyDict, [server_url |-> "a"], [push_every |-> 1]}
PatchNext ==
  \/ (\E d \in DefaultsChoices: install(d))
       /\ UNCHANGED <<cvars, svars, xvars>>
  \/ uninstall /\ UNCHANGED <<cvars, svars, xvars>>
  \/ (\E name \in Importable: import_tqdm(name))
       /\ UNCHANGED <<cvars, svars, xvars>>

PatchSpecInit == ClientIdle /\ ServerInit({BaseSettings}) /\ XIdle /\ PatchIdle
PatchSpec ==
  /\ PatchSpecInit
  /\ [][PatchNext]_vars


\* the seq of the event emitted by the first close(): start, the updates,
\* then close
FirstCloseSeq == nupd + 2
InLoop == wpc \in {"check", "get", "posting"}

\* C1: when the delivery worker has ended, the last event it handed to the
\* transport has status close, for every push interval; in a run with one
\* close() that event is the one close() emitted.
C1_CloseIsLastSent ==
  wpc = "done" =>
    /\ sent # <<>>
    /\ Last(sent).status = "close"
    /\ ncloses = 1 => Last(sent).seq = FirstCloseSeq

\* C1 witness: a run with a push interval longer than the run, all updates
\* made, one close(), and the worker ended with close as the last event.
C1_Witness ==
  /\ wpc = "done"
  /\ push_every > MaxTime
  /\ nupd = MaxUpdates
  /\ ncloses = 1
  /\ Last(sent).status = "close"
  /\ Len(sent) < nemit

\* C2: over the emitter's lifetime exactly one start event and exactly one
\* close event are handed to the transport (never more than one of each,
\* and one of each once the worker has ended), also when close() is called
\* again.
C2_ExactlyOneStartAndClose ==
  /\ CountStatus("start") <= 1
  /\ CountStatus("close") <= 1
  /\ wpc = "done" => (CountStatus("start") = 1 /\ CountStatus("close") = 1)

C4_ThrottleSpacing ==
  /\ \A i \in 2..Len(sent):
       sent[i].phase = "loop" => sent[i].t - sent[i-1].t >= push_every
  /\ wpc = "posting" => Last(sent).seq = nemit - Len(queue)

\* C4 witness: with a positive push interval, two consecutive loop sends
\* between which a dequeued event was overwritten and not sent.
C4_Witness ==
  /\ push_every > 0
  /\ \E i \in 2..Len(sent):
       /\ sent[i].phase = "loop"
       /\ sent[i-1].phase = "loop"
       /\ sent[i].seq > sent[i-1].seq + 1

\* C5: whenever the producer stands at an emit (the constructor's start
\* emit, update()/set_description(), or close()'s emit) the emit can
\* complete at once, whatever the worker is doing and however many events
\* are pending.
C5_EmitNeverBlocks ==
  /\ ppc = "emit_start" => ENABLED init_emit
  /\ ppc = "emit_close" => ENABLED close_emit
  /\ (ppc = "run" /\ nupd < MaxUpdates) => ENABLED update

\* C5 witness: the producer stands at close()'s emit while the worker is in
\* the middle of a send and two events are already queued.
C5_Witness ==
  /\ ppc = "emit_close"
  /\ wpc = "posting"
  /\ Len(queue) >= 2

\* C6: a failed delivery stays in the worker: the worker never ends by an
\* exception, no event is handed to the transport twice, after a send in
\* the loop the buffer no longer holds the sent event, and last_push is the
\* start of the last send whether it failed or not.
C6_FailureContained ==
  /\ wpc # "crashed"
  /\ \A i, j \in 1..Len(sent): sent[i].seq = sent[j].seq => i = j
  /\ (wpc \in {"check", "get"} /\ buffered # None) =>
       buffered[1].seq \notin SentSeqs
  /\ (wpc \in {"check", "get"} /\ sent # <<>>) => last_push = Last(sent).t

\* C6 witness: a send in the loop failed, the worker went on, and a later
\* event was delivered.
C6_Witness ==
  \E i, j \in 1..Len(sent):
    /\ i < j
    /\ sent[i].ok = "failed"
    /\ sent[i].phase = "loop"
    /\ sent[j].ok = "ok"
    /\ wpc \in {"check", "get"}

\* ------------------------------------------------------- server properties
Max(S) == CHOOSE x \in S: \A y \in S: y <= x
\* the merges recorded for one task id, and the last of them that carried
\* field f (0 when none did)
MergesOf(id) == {i \in 1..Len(hist): hist[i].ev.task_id = id}
LastCarrier(id, f) ==
  LET c == {i \in MergesOf(id): hist[i].ev[f] # None}
  IN IF c = {} THEN 0 ELSE Max(c)
\* the value field f of task id must hold after the recorded merges; the
\* creation defaults are n = 0, total = None and no desc, unit or meta key
FieldAsLastCarried(id, f) ==
  LET i == LastCarrier(id, f)
      t == tasks[id]
  IN IF f = "total" THEN t.total = (IF i = 0 THEN None ELSE hist[i].ev.total)
     ELSE IF f = "n" THEN t.n = (IF i = 0 THEN 0 ELSE hist[i].ev.n[1])
     ELSE IF i = 0 THEN f \notin DOMAIN t
     ELSE /\ f \in DOMAIN t
          /\ t[f] = IF f = "meta" THEN Pop(hist[i].ev.meta[1], "_token")
                    ELSE hist[i].ev[f][1]

\* C7: after any sequence of merges into an empty registry, each task holds
\* for each of desc, total, n, unit and meta the value of the last event
\* for its id that carried the field (meta without the _token entry the
\* handler pops), a field no event carried keeps its creation default, and
\* updated_at is the time of the last merge for that id.
C7_LastValuePerField ==
  \A id \in TaskIds:
    IF MergesOf(id) = {} THEN id \notin DOMAIN tasks
    ELSE /\ id \in DOMAIN tasks
         /\ \A f \in Fields: FieldAsLastCarried(id, f)
         /\ tasks[id].updated_at = hist[Max(MergesOf(id))].t

\* C7 witness: two tasks were merged, and for one of them a field was
\* carried by an earlier event and not by a later one that arrived at a
\* later time.
C7_Witness ==
  /\ Len(hist) = MaxMerges
  /\ \E id \in TaskIds, f \in Fields:
       /\ LastCarrier(id, f) > 0
       /\ LastCarrier(id, f) < Max(MergesOf(id))
       /\ hist[LastCarrier(id, f)].t < hist[Max(MergesOf(id))].t

AcceptedProgress(r, rs) == r.op = "progress" /\ rs.code = 200

\* C8 as stated: an accepted event that carries no status leaves the status
\* as it was, start for a task created by that event.
C8_NoStatusKeepsStatus ==
  [][(AcceptedProgress(req', resp') /\ req'.status = None) =>
       tasks'[req'.id].status =
         (IF req'.id \in DOMAIN tasks THEN tasks[req'.id].status ELSE "start")]_vars

\* C8 amended: an accepted event that carries no status is merged with
\* status update, for a never-seen task and for an existing one alike.
C8_NoStatusMeansUpdate ==
  (AcceptedProgress(req, resp) /\ req.status = None) =>
    tasks[req.id].status = "update"

\* C8 witness: an event without status was merged into a task that had
\* been closed before (it has a done_at) and now has status update.
C8_Witness ==
  /\ AcceptedProgress(req, resp)
  /\ req.status = None
  /\ "done_at" \in DOMAIN tasks[req.id]
  /\ tasks[req.id].status = "update"

\* the tokens a request presents, and whether one of them is configured
MetaTokenOf(r) ==
  IF r.op = "progress" /\ r.meta # None /\ "_token" \in DOMAIN r.meta[1]
    THEN {r.meta[1]["_token"]} ELSE {}
QueryTokenOf(r) == IF r.qtok # None THEN {r.qtok[1]} ELSE {}
BearerTokenOf(r) ==
  IF r.header # None /\ r.header[1].scheme \in {"Bearer", "bearer"}
    THEN {r.header[1].cred} ELSE {}
PresentsValidToken(r) ==
  (MetaTokenOf(r) \cup QueryTokenOf(r) \cup BearerTokenOf(r))
    \cap settings.api_tokens # {}
Protected == {"progress", "delete_task", "bulk_delete"}

\* C9: with tokens configured, a POST /progress, DELETE /tasks/{id} or
\* DELETE /tasks that presents no valid token answers 401 and leaves the
\* registry, the snapshot file, the watcher set and every watcher's inbox
\* as they were; a POST /progress with a valid token in any one of
\* meta._token, the query string or the bearer header answers 200 and is
\* merged, persisted and broadcast.
C9_TokenEnforcement ==
  [][(req'.op \in Protected /\ settings.api_tokens # {}) =>
       IF ~PresentsValidToken(req')
         THEN /\ resp'.code = 401
              /\ UNCHANGED <<tasks, disk, inbox, watchers>>
         ELSE req'.op = "progress" =>
                /\ resp'.code = 200
                /\ req'.id \in DOMAIN tasks'
                /\ tasks'[req'.id].updated_at = snow
                /\ tasks'[req'.id].status =
                     (IF req'.status = None THEN "update" ELSE req'.status[1])
                /\ disk' = Some([tasks |-> tasks', saved_at |-> snow])
                /\ \A w \in watchers: inbox'[w] = Some([tasks |-> tasks'])]_vars

\* C9 witness: with tokens configured, a task in the registry and a watcher
\* connected, a POST /progress carrying only bad tokens was answered 401.
C9_Witness ==
  /\ settings.api_tokens # {}
  /\ req.op = "progress"
  /\ resp.code = 401
  /\ req.qtok = Some("bad")
  /\ req.meta = Some([_token |-> "bad"])
  /\ req.id \in DOMAIN tasks
  /\ watchers # {}

\* C10: a sweep removes a closed task whenever retention_seconds > 0 and
\* now - updated_at > retention_seconds; a closed task that this does not
\* select (its age is at or below retention_seconds, or retention_seconds
\* is 0) and that max-age does not select either stays, unchanged.
C10_CloseRetention ==
  [][req'.op = "sweep" =>
       \A id \in DOMAIN tasks:
         tasks[id].status = "close" =>
           LET age == snow - tasks[id].updated_at
               byRetention == /\ settings.retention_seconds > 0
                              /\ age > settings.retention_seconds
               byMaxAge == /\ settings.max_task_age > 0
                           /\ age > settings.max_task_age
           IN /\ byRetention => id \notin DOMAIN tasks'
              /\ (~byRetention /\ ~byMaxAge) =>
                   (id \in DOMAIN tasks' /\ tasks'[id] = tasks[id])]_vars

\* C10 witness: with max-age off, a sweep removed a task while a closed
\* task whose age equals retention_seconds is still in the registry.
C10_Witness ==
  /\ req.op = "sweep"
  /\ settings.max_task_age = 0
  /\ settings.retention_seconds > 0
  /\ resp.removed # {}
  /\ \E id \in DOMAIN tasks:
       /\ tasks[id].status = "close"
       /\ snow - tasks[id].updated_at = settings.retention_seconds

\* whether the max-age pass of a sweep at the current time selects task t
ByMaxAge(t) ==
  /\ settings.max_task_age > 0
  /\ snow - t.updated_at > settings.max_task_age
\* whether the close-retention pass selects it
ByRetention(t) ==
  /\ t.status = "close"
  /\ settings.retention_seconds > 0
  /\ snow - t.updated_at > settings.retention_seconds
\* whether the staleness pass selects it
StaleDue(t) ==
  /\ settings.stale_seconds > 0
  /\ t.status \notin {"close", "stale"}
  /\ snow - t.updated_at > settings.stale_seconds

\* C11: a sweep marks exactly the tasks that are neither close nor stale and
\* have now - updated_at > stale_seconds > 0; a marked task that max-age
\* does not remove in the same sweep stays in the registry with status
\* stale, with stale_at = now when it had none, and is otherwise as it was;
\* a sweep never rewrites a stale_at and leaves a stale task as it is; a
\* sweep that directly follows a sweep removes nothing, marks nothing and
\* publishes nothing.
C11_StaleOnce ==
  [][req'.op = "sweep" =>
       /\ \A id \in DOMAIN tasks:
            LET t == tasks[id] IN
            /\ StaleDue(t) <=> id \in resp'.marked
            /\ (StaleDue(t) /\ ~ByMaxAge(t)) =>
                 /\ id \in DOMAIN tasks'
                 /\ tasks'[id] =
                      SetDefault(Put(t, "status", "stale"), "stale_at", snow)
                 /\ tasks'[id].status = "stale"
                 /\ tasks'[id].stale_at =
                      (IF "stale_at" \in DOMAIN t THEN t.stale_at ELSE snow)
            /\ (id \in DOMAIN tasks' /\ "stale_at" \in DOMAIN t) =>
                 tasks'[id].stale_at = t.stale_at
            /\ (id \in DOMAIN tasks' /\ t.status = "stale") => tasks'[id] = t
       /\ req.op = "sweep" =>
            /\ resp'.removed = {} /\ resp'.marked = {}
            /\ UNCHANGED <<tasks, disk, inbox, watchers>>]_vars

\* C11 witness: a sweep at a later time than the one that marked a task
\* stale found nothing to do, and the task still has its first stale_at.
C11_Witness ==
  /\ req.op = "sweep"
  /\ resp.marked = {} /\ resp.removed = {}
  /\ \E id \in DOMAIN tasks:
       /\ tasks[id].status = "stale"
       /\ tasks[id].stale_at < snow
       /\ tasks[id].stale_at > tasks[id].updated_at

\* C12: with max_task_age > 0 a sweep removes every task with
\* now - updated_at > max_task_age, whatever its status and also when the
\* same sweep marks it stale, and a task it keeps is at or below that age
\* or selected by no policy; with max_task_age = 0 every task a sweep
\* removes is one the close-retention policy selects.
C12_MaxAge ==
  [][req'.op = "sweep" =>
       \A id \in DOMAIN tasks:
         LET t == tasks[id] IN
         /\ ByMaxAge(t) => (id \notin DOMAIN tasks' /\ id \in resp'.removed)
         /\ (settings.max_task_age = 0 /\ id \notin DOMAIN tasks') =>
              ByRetention(t)
         /\ (~ByMaxAge(t) /\ ~ByRetention(t)) => id \in DOMAIN tasks']_vars

\* C12 witness: one sweep removed by max-age a task that was not closed and
\* that its staleness pass had marked, and removed a stale or closed task
\* before or with it.
C12_Witness ==
  /\ req.op = "sweep"
  /\ settings.max_task_age > 0
  /\ settings.retention_seconds = 0
  /\ resp.removed \cap resp.marked # {}
  /\ Cardinality(resp.removed) = 2

\* C13: cleanup_loop is still running after a cycle that raised: whenever
\* the app is up its sweeper is running and its next cycle can be taken.
C13_SweeperSurvives ==
  app = "up" => (cleanup_task = "running" /\ ENABLED cleanup_cycle(TRUE, {}))

\* a file persist_state could have written: an object whose tasks all have
\* the keys every registry entry has
WellFormed(raw) ==
  {"task_id", "created_at", "updated_at", "status"} \subseteq DOMAIN raw
Persisted(file) ==
  /\ file # None
  /\ Readable(file[1])
  /\ IsObject(file[1])
  /\ "tasks" \in DOMAIN file[1]
  /\ \A id \in DOMAIN file[1].tasks: WellFormed(file[1].tasks[id])
Loads == req'.op = "create_app" /\ app' = "up" /\ Persisted(disk)

\* C14 as stated: loading a persisted registry yields the same ids, and
\* each task as it was persisted, with recovered = true and recovered_at
\* added when its status was not close or stale.
C14_RoundTripAddsRecovered ==
  [][Loads =>
       /\ DOMAIN tasks' = DOMAIN disk[1].tasks
       /\ \A id \in DOMAIN tasks':
            LET raw == disk[1].tasks[id] IN
            tasks'[id] =
              IF raw.status \in {"close", "stale"} THEN raw
              ELSE Put(Put(raw, "recovered", TRUE), "recovered_at", snow)]_vars

\* C14 amended: a write that succeeds stores exactly the registry, and
\* loading it yields the same ids; each task has the keys it was persisted
\* with plus recovered and recovered_at, every value other than status,
\* recovered and recovered_at as persisted, status kept when it was close
\* or stale and recovered otherwise, and recovered = true with
\* recovered_at = the load time, also on the close and stale entries.
C14_RoundTripMarksRecovered ==
  [][/\ (req'.op \in {"progress", "sweep"} /\ disk' # disk) =>
          (Persisted(disk') /\ disk'[1].tasks = tasks')
     /\ Loads =>
          /\ DOMAIN tasks' = DOMAIN disk[1].tasks
          /\ \A id \in DOMAIN tasks':
               LET raw == disk[1].tasks[id]
                   t == tasks'[id]
               IN /\ DOMAIN t = DOMAIN raw \cup {"recovered", "recovered_at"}
                  /\ \A k \in DOMAIN raw \ {"status", "recovered", "recovered_at"}:
                       t[k] = raw[k]
                  /\ t.status = (IF raw.status \in {"close", "stale"}
                                   THEN raw.status ELSE "recovered")
                  /\ t.recovered = TRUE
                  /\ t.recovered_at = snow]_vars

\* C14 witness: a second process start loaded a file the first process
\* wrote, holding one task with status update, now recovered, and one that
\* was close or stale and kept that status.
C14_Witness ==
  /\ req.op = "create_app"
  /\ app = "up"
  /\ boots = 2
  /\ Persisted(disk)
  /\ \E id \in DOMAIN tasks:
       /\ disk[1].tasks[id].status = "update"
       /\ tasks[id].status = "recovered"
  /\ \E id \in DOMAIN tasks:
       /\ tasks[id].status \in {"close", "stale"}
       /\ tasks[id].recovered_at > disk[1].saved_at

\* a file load_persisted_tasks finds missing, cannot parse, or finds to
\* hold no tasks object
Unusable(file) ==
  \/ file = None
  \/ ~Readable(file[1])
  \/ (IsObject(file[1]) /\ "tasks" \notin DOMAIN file[1])
\* the steps that publish: an accepted merge, a delete or a sweep that
\* changed the registry
Publishes(r, rs) ==
  \/ r.op = "progress" /\ rs.code = 200
  \/ r.op = "delete_task" /\ rs.removed
  \/ r.op = "sweep" /\ rs.removed \cup rs.marked # {}

C20_WatchTokenEitherPlace ==
  [][req'.op = "watch" =>
       IF settings.api_tokens = {} \/ PresentsValidToken(req')
         THEN /\ resp'.code = 101
              /\ watchers' = watchers \cup {req'.w}
              /\ inbox'[req'.w] = Some([tasks |-> tasks])
         ELSE /\ resp'.code = 4401
              /\ UNCHANGED <<watchers, inbox>>]_vars

Writers == {h \in Handlers: co[h].pc \in {"open", "first", "second", "replace"}}

\* C15: the snapshot file is absent or holds exactly one payload that was
\* handed to persist_state; it changes only by the replace of a writer,
\* which makes it that writer's whole payload, so a process killed at any
\* step of a write leaves the previous file; and at most one write_snapshot
\* runs at a time.
C15_SnapshotFileWhole ==
  [][/\ disk' = None \/ disk'[1] \in handed'
     /\ Cardinality(Writers') <= 1
     /\ disk' # disk =>
          (req'.op = "write_replace" /\ disk' = Some(co[req'.h].data))]_vars

\* C15 witness: the process was killed after the first half of a snapshot
\* reached the temporary file, and the snapshot file holds the whole
\* previous snapshot.
C15_Witness ==
  /\ app = "down"
  /\ tmp # None
  /\ Len(tmp[1]) = 1
  /\ disk # None
  /\ disk[1] \in handed
  /\ disk[1] # tmp[1][1].of

Delivered(sockets, w, by, payload) ==
  \E i \in 1..Len(sockets[w].received):
    sockets[w].received[i] = [by |-> by, payload |-> payload]

\* C17: a broadcast copies the whole watcher set when it starts; when it
\* returns, every websocket of that copy has either been delivered the
\* payload or had its send fail, the failed ones are exactly those whose
\* peer was gone, and they, and only they, have been discarded from the
\* watcher set.
C17_FanOut ==
  [][/\ \A h \in Handlers:
          (co'[h].pc = "sending" /\ co[h].pc # "sending") =>
            (Range(co'[h].list) = watchers /\ co'[h].todo = co'[h].list)
     /\ (req'.op = "send_json_returns" /\ resp'.code = 200) =>
          /\ resp'.list = co[req'.by].list
          /\ \A w \in Range(resp'.list):
               /\ w \in resp'.dead <=>
                    ~Delivered(ws', w, req'.by, resp'.payload)
               /\ w \in resp'.dead => ~ws'[w].up
          /\ resp'.dead \subseteq Range(resp'.list)
          /\ watchers' = watchers \ resp'.dead]_vars

\* C17 witness: a broadcast to two websockets returned; the send to the
\* first failed, the second was delivered the payload, and the first is no
\* longer in the watcher set.
C17_Witness ==
  /\ req.op = "send_json_returns"
  /\ resp.code = 200
  /\ Len(resp.list) = 2
  /\ resp.dead = {resp.list[1]}
  /\ Delivered(ws, resp.list[2], req.by, resp.payload)
  /\ watchers = {resp.list[2]}

\* C18: the first message delivered to a websocket is the one watch() sent
\* for its subscription: while that send is pending it is the oldest send
\* on the socket and nothing has been delivered, and a websocket that has
\* not been accepted is not in the watcher set.
C18_InitialSnapshotFirst ==
  \A w \in Sockets:
    /\ ws[w].received # <<>> => ws[w].received[1].by = w
    /\ ws[w].pc = "initial" =>
         (ws[w].received = <<>> /\ sending[w] # <<>> /\ Head(sending[w]).by = w)
    /\ ws[w].pc \in {"new", "accepting"} => w \notin watchers

\* C18 witness: a websocket subscribed while a merge was suspended between
\* its snapshot and its broadcast; it was delivered its initial snapshot
\* and then that merge's broadcast.
C18_Witness ==
  \E w \in Sockets:
    /\ Len(ws[w].received) >= 2
    /\ ws[w].received[1].by = w
    /\ ws[w].received[2].by \in Handlers
    /\ ws[w].received[2].payload = ws[w].received[1].payload

\* the number of merges a delivered snapshot shows
Version(msg) ==
  IF "t1" \in DOMAIN msg.payload.tasks THEN msg.payload.tasks["t1"].n ELSE 0
Quiescent ==
  /\ \A h \in Handlers: co[h].pc = "idle"
  /\ \A w \in Sockets: sending[w] = <<>>

\* C19: the snapshots delivered to a websocket never go backwards, and
\* when no handler is in flight the last snapshot delivered to each
\* connected watcher is the registry.
C19_NeverBackwards ==
  \A w \in Sockets:
    /\ \A i, j \in 1..Len(ws[w].received):
         i < j => Version(ws[w].received[i]) <= Version(ws[w].received[j])
    /\ (Quiescent /\ w \in watchers /\ ws[w].up /\ ws[w].received # <<>>) =>
         Last(ws[w].received).payload = Payload(tasks)

\* C21: a merge that leaves a task with status close leaves it with a
\* done_at, and a task that has a done_at keeps that value through every
\* merge and sweep for as long as it stays in the registry.
C21_DoneAtSetOnce ==
  [][/\ (req'.op = "progress" /\ resp'.code = 200) =>
          (tasks'[req'.id].status = "close" =>
             "done_at" \in DOMAIN tasks'[req'.id])
     /\ \A id \in DOMAIN tasks \cap DOMAIN tasks':
          "done_at" \in DOMAIN tasks[id] =>
            /\ "done_at" \in DOMAIN tasks'[id]
            /\ tasks'[id].done_at = tasks[id].done_at]_vars

\* C21 witness: a task closed, updated and closed again later still has
\* the done_at of its first close.
C21_Witness ==
  /\ req.op = "progress"
  /\ req.status = Some("close")
  /\ req.id \in DOMAIN tasks
  /\ "done_at" \in DOMAIN tasks[req.id]
  /\ tasks[req.id].done_at < tasks[req.id].updated_at

RecoveryMarks == {"recovered", "recovered_at"}
Marked(task) == RecoveryMarks \subseteq DOMAIN task
Unmarked(task) == RecoveryMarks \cap DOMAIN task = {}

\* C22: every task create_app restores carries recovered and recovered_at;
\* an accepted merge leaves its task with neither and the other tasks as
\* they were; a sweep, whether it completes or raises, neither adds nor
\* clears them on a task it keeps.
C22_RecoveredUntilFirstEvent ==
  [][/\ req'.op = "create_app" =>
          \A id \in DOMAIN tasks':
            /\ Marked(tasks'[id])
            /\ tasks'[id].recovered = TRUE
            /\ tasks'[id].recovered_at = snow
     /\ (req'.op = "progress" /\ resp'.code = 200) =>
          /\ Unmarked(tasks'[req'.id])
          /\ \A id \in DOMAIN tasks' \ {req'.id}:
               id \in DOMAIN tasks /\ tasks'[id] = tasks[id]
     /\ req'.op \in {"sweep", "sweep_raised"} =>
          \A id \in DOMAIN tasks':
            /\ id \in DOMAIN tasks
            /\ RecoveryMarks \cap DOMAIN tasks'[id] =
                 RecoveryMarks \cap DOMAIN tasks[id]
            /\ Marked(tasks[id]) =>
                 tasks'[id].recovered_at = tasks[id].recovered_at
     /\ \A id \in DOMAIN tasks: Marked(tasks[id]) \/ Unmarked(tasks[id])]_vars

\* C22 witness: a task that was restored with both marks has just received
\* an event and carries neither, next to a restored task the sweeper has
\* marked stale and that still carries both.
C22_Witness ==
  /\ req.op = "progress"
  /\ resp.code = 200
  /\ boots = 2
  /\ Unmarked(tasks[req.id])
  /\ \E id \in DOMAIN tasks \ {req.id}:
       Marked(tasks[id]) /\ tasks[id].status = "stale"

\* C23: every task of the registry whose created_at and updated_at are
\* numbers has updated_at >= created_at.
C23_UpdatedNotBeforeCreated ==
  \A id \in DOMAIN tasks:
    ({"created_at", "updated_at"} \subseteq DOMAIN tasks[id]
       /\ IsNumber(tasks[id].created_at) /\ IsNumber(tasks[id].updated_at))
      => tasks[id].updated_at >= tasks[id].created_at

\* the positions of a text that bound its entries: before its first
\* character, each comma, and after its last character
Cuts(text) == {0, Len(text) + 1} \cup {i \in 1..Len(text): text[i] = ","}
NextCut(text, a) ==
  CHOOSE b \in Cuts(text): b > a /\ \A c \in Cuts(text): ~(a < c /\ c < b)
\* the positions between cut a and the next cut that hold no whitespace
Solid(text, a) ==
  {i \in (a + 1)..(NextCut(text, a) - 1): text[i] \notin Whitespace}
\* the cuts that open an entry with something in it
Kept(text) == {a \in Cuts(text) \ {Len(text) + 1}: Solid(text, a) # {}}
MinOf(S) == CHOOSE x \in S: \A y \in S: x <= y
MaxOf(S) == CHOOSE x \in S: \A y \in S: x >= y
\* `list` is the comma-separated reading of `text`: one entry for each
\* piece that is not all whitespace, in the order of the pieces, each from
\* its first to its last non-whitespace character
ReadsAsList(text, list) ==
  /\ Len(list) = Cardinality(Kept(text))
  /\ \A a \in Kept(text):
       LET k == Cardinality({c \in Kept(text): c <= a})
       IN list[k] = SubSeq(text, MinOf(Solid(text, a)), MaxOf(Solid(text, a)))

\* C25: PROGRESSISTA_ALLOW_ORIGINS, and PROGRESSISTA_API_TOKENS when it is
\* set to a text that is not empty, are read as comma-separated lists:
\* entries trimmed of surrounding whitespace, empty entries dropped, the
\* others kept in their order; an unset or empty PROGRESSISTA_ALLOW_ORIGINS
\* gives no origins.
C25_CommaSeparatedLists ==
  req.op = "post_init" =>
    /\ ReadsAsList(IF req.PROGRESSISTA_ALLOW_ORIGINS = None THEN <<>>
                   ELSE req.PROGRESSISTA_ALLOW_ORIGINS[1],
                   resp.allow_origins)
    /\ Truthy(req.PROGRESSISTA_API_TOKENS) =>
         ReadsAsList(req.PROGRESSISTA_API_TOKENS[1], resp.api_tokens)

\* C25 witness: the tokens text "b , a," was read as the two tokens b
\* and a, in that order.
C25_Witness ==
  /\ req.op = "post_init"
  /\ req.PROGRESSISTA_API_TOKENS = Some(<<"b", " ", ",", "a">>)
  /\ resp.api_tokens = << <<"b">>, <<"a">> >>

\* the tasks that match every filter DELETE /tasks was given
MatchesFilters(ts, status, older_than, now) ==
  {id \in DOMAIN ts:
     /\ status # None => ts[id].status = status[1]
     /\ older_than # None => ts[id].updated_at <= now - older_than[1]}

\* C28: DELETE /tasks removes exactly the tasks that match every filter it
\* was given, answers with exactly their ids and leaves every other task
\* as it was.
C28_BulkDeleteExact ==
  [][(req'.op = "bulk_delete" /\ resp'.code = 200) =>
       /\ resp'.removed =
            MatchesFilters(tasks, req'.status, req'.older_than, snow)
       /\ DOMAIN tasks' = DOMAIN tasks \ resp'.removed
       /\ \A id \in DOMAIN tasks': tasks'[id] = tasks[id]]_vars

\* C30: the events handed to requests.post are events that were emitted,
\* in the order they were emitted and none of them twice.
C30_SentInEmitOrder ==
  /\ \A i \in 1..Len(sent): sent[i].seq \in 1..nemit
  /\ \A i, j \in 1..Len(sent): i < j => sent[i].seq < sent[j].seq

\* C30 witness: the worker has ended after sending in its loop and in its
\* shutdown flush, and an event emitted before the last sent one was never
\* sent.
C30_Witness ==
  /\ wpc = "done"
  /\ \E i, j \in 1..Len(sent):
       sent[i].phase = "loop" /\ sent[j].phase = "flush"
  /\ \E k \in 1..nemit: k \notin SentSeqs /\ k < Last(sent).seq

\* C29: with retention_seconds > 0, a task that is closed in a running
\* server, early enough for its retention to run out within the time
\* modelled, is eventually removed or receives a further event.
C29_ClosedEventuallyRemoved ==
  \A id \in TaskIds, u \in 0..MaxNow:
    (/\ app = "up"
     /\ settings.retention_seconds > 0
     /\ id \in DOMAIN tasks
     /\ tasks[id].status = "close"
     /\ tasks[id].updated_at = u
     /\ u + settings.retention_seconds < MaxNow)
      ~> \/ id \notin DOMAIN tasks
         \/ tasks[id].status # "close"
         \/ tasks[id].updated_at # u

\* the time of the last event merged into task id
LastEventAt(id) ==
  LET own == SelectSeq(hist, LAMBDA e: e.ev.task_id = id)
  IN own[Len(own)].t

\* C26: a sweep step removes exactly the tasks its removal policies select
\* in the registry as it is when the sweep runs and marks exactly the
\* tasks its staleness policy selects there, all of them at once, on the
\* age since the task's last event; the registry changes in no step other
\* than a merge, a delete or a sweep; the shutdown's cancellation changes
\* no task wherever it lands, and after it the cleanup loop holds nothing,
\* waits for nothing and never sweeps again.
C26_SweepAtomic ==
  [][/\ req'.op = "sweep_apply" =>
          /\ DOMAIN tasks' =
               {id \in DOMAIN tasks:
                  ~ByRetention(tasks[id]) /\ ~ByMaxAge(tasks[id])}
          /\ \A id \in DOMAIN tasks':
               tasks'[id] = IF StaleDue(tasks[id])
                              THEN mark_stale(tasks[id], snow)
                              ELSE tasks[id]
          /\ \A id \in DOMAIN tasks:
               (id \notin DOMAIN tasks' \/ tasks'[id] # tasks[id]) =>
                 /\ snow - LastEventAt(id) >
                      (IF id \in DOMAIN tasks' THEN settings.stale_seconds
                       ELSE settings.retention_seconds)
                 /\ id \in resp'.removed \cup resp'.marked
     /\ tasks' # tasks =>
          req'.op \in {"progress_merge", "delete_pop", "sweep_apply"}
     /\ req'.op = "shutdown" =>
          /\ tasks' = tasks
          /\ cleanup_task' = "cancelled"
     /\ cleanup_task' = "cancelled" =>
          /\ co'[CleanupCo] = IdleCo
          /\ CleanupCo \notin Range(persist_lock')
          /\ \A w \in Sockets: \A i \in 1..Len(sending'[w]):
               sending'[w][i].by # CleanupCo
     /\ cleanup_task = "cancelled" =>
          /\ cleanup_task' = "cancelled"
          /\ req'.op \notin {"sweep_apply", "sweep_raised"}]_vars

\* C26 witness: the cancellation landed while the cleanup loop was
\* suspended in the publication of a sweep that had marked a task stale
\* at a time a merge of that second could have preceded, and the mark is
\* in the registry.
C26_Witness ==
  /\ req.op = "shutdown"
  /\ resp.at # "idle"
  /\ \E id \in DOMAIN tasks: tasks[id].status = "stale"

\* the lock operations coroutine c performs in the step that was taken
StepLocks(c) ==
  LET got == co'[c].pc # "lock_wait" IN
  IF co[c].pc = "lock_wait" /\ co'[c].pc = "open"
    THEN <<Acq("persist_lock")>>
  ELSE IF req'.op = "shutdown"
    THEN (IF c = req'.h THEN cancel_locks(co[c].pc) ELSE <<>>)
  ELSE IF req'.op \in {"progress_merge", "delete_pop", "sweep_apply",
                        "persist_returns"} /\ req'.h # c
    THEN <<>>
  ELSE IF req'.op = "progress_merge"
    THEN change_locks(settings.storage, got)
  ELSE IF req'.op = "delete_pop"
    THEN (IF resp'.removed THEN change_locks(settings.storage, got)
          ELSE Under("state_lock"))
  ELSE IF req'.op = "sweep_apply"
    THEN (IF resp'.removed \cup resp'.marked # {}
            THEN change_locks(settings.storage, got)
            ELSE Under("state_lock"))
  ELSE IF req'.op = "persist_returns"
    THEN persist_exit_locks
  ELSE IF req'.op = "send_json_returns" /\ req'.by = c /\ co'[c].pc = "idle"
    THEN discard_locks(resp'.dead)
  ELSE <<>>

\* the locks held at the end of trace when it starts holding held, or
\* Clash when it acquires a lock while it holds one, or releases a lock it
\* does not hold, or names no lock
Clash == {"clash"}
RECURSIVE Walk(_, _)
Walk(held, trace) ==
  IF trace = <<>> THEN held
  ELSE LET e == Head(trace) IN
       IF e[2] \notin Locks THEN Clash
       ELSE IF e[1] = "acquire"
         THEN (IF held = {} THEN Walk({e[2]}, Tail(trace)) ELSE Clash)
       ELSE (IF held = {e[2]} THEN Walk({}, Tail(trace)) ELSE Clash)

\* C24: between two suspensions every handler, the cleanup loop and every
\* websocket coroutine takes and releases the three locks one at a time,
\* never holding two; at every suspension, and so during every file write
\* and every watcher send, it holds neither state_lock nor watchers_lock,
\* and persist_lock only around the file write; whoever waits for
\* persist_lock waits for a coroutine that holds only persist_lock and is
\* in a file write that needs no lock to finish, so no wait is circular.
C24_LockDiscipline ==
  [][/\ \A c \in Handlers:
          /\ Walk(LocksHeld(co[c].pc), StepLocks(c)) = LocksHeld(co'[c].pc)
          /\ co'[c].pc \in {"open", "first", "second", "replace", "written",
                            "sending"} =>
               /\ "state_lock" \notin LocksHeld(co'[c].pc)
               /\ "watchers_lock" \notin LocksHeld(co'[c].pc)
          /\ "persist_lock" \in LocksHeld(co'[c].pc) <=>
               (persist_lock' # <<>> /\ Head(persist_lock') = c)
          /\ co'[c].pc = "lock_wait" =>
               /\ c \in Range(persist_lock')
               /\ Head(persist_lock') # c
               /\ LocksHeld(co'[Head(persist_lock')].pc) = {"persist_lock"}
     /\ req'.op = "ws_accepted" => Walk({}, watch_locks) = {}]_vars

\* C24 witness: the cleanup loop is in the file write of its sweep under
\* persist_lock while the handler, having merged an event under
\* state_lock, waits for persist_lock.
C24_Witness ==
  /\ co[CleanupCo].pc \in {"first", "second"}
  /\ co[RequestCo].pc = "lock_wait"
  /\ persist_lock = <<CleanupCo, RequestCo>>
  /\ req.op \in {"progress_merge", "write_open", "write_half"}

\* C27: every merge, delete or sweep that changes the registry writes the
\* snapshot taken after the change to the file and sends it to every
\* watcher, and a sweep that changes nothing writes and sends nothing.
C27_ChangePublished ==
  [][req'.op \in {"progress", "delete_task", "sweep", "sweep_raised"} =>
       IF tasks' # tasks
         THEN /\ settings.storage =>
                   disk' = Some(FilePayload(get_snapshot(tasks'), snow))
              /\ \A w \in watchers':
                   inbox'[w] = Some(Payload(get_snapshot(tasks')))
         ELSE req'.op # "progress" => UNCHANGED <<disk, inbox>>]_vars

\* whether the event with this seq has been handed to requests.post
InSent(seq) == \E i \in 1..Len(sent): sent[i].seq = seq

\* C31 as stated: when close() has returned, the delivery worker has ended
\* and the close event that call emitted has been handed to the
\* transport.
C31_ReturnedAfterCloseSent ==
  (ppc = "closed" /\ ncloses > 0) => (wpc = "done" /\ InSent(nemit))

\* C31: close() waits for the delivery worker for at most request_timeout
\* seconds: when a close() has returned, the worker has ended or
\* request_timeout seconds have passed since that call began to wait; a
\* worker that has ended has handed a close event to the transport, and
\* when close() was called once it is that call's event.
C31_CloseWaitsAtMostTimeout ==
  /\ (ppc = "closed" /\ ncloses > 0) =>
       (wpc = "done" \/ cnow - join_start >= RequestTimeout)
  /\ wpc = "done" =>
       /\ \E i \in 1..Len(sent): sent[i].status = "close"
       /\ ncloses = 1 => InSent(FirstCloseSeq)

\* C31 witness: close() has returned on the timeout while the worker is
\* still in an earlier send, and the close event has not been handed to
\* the transport.
C31_Witness ==
  /\ ppc = "closed"
  /\ ncloses = 1
  /\ wpc \in {"posting", "flush_posting"}
  /\ cnow - join_start >= RequestTimeout
  /\ ~InSent(FirstCloseSeq)

\* whether no task of a snapshot has the key _token in its meta
NoToken(ts) ==
  \A id \in DOMAIN ts:
    "meta" \in DOMAIN ts[id] => "_token" \notin DOMAIN ts[id].meta

\* C32: no task's meta in the registry, in the snapshot file or in the
\* last snapshot sent to a watcher has the key _token, whatever tokens the
\* requests carried in their meta and whether they were accepted or
\* answered 401.
C32_TokenNeverStored ==
  /\ NoToken(tasks)
  /\ (disk # None /\ "tasks" \in DOMAIN disk[1]) => NoToken(disk[1].tasks)
  /\ \A w \in WatcherIds: inbox[w] # None => NoToken(inbox[w][1].tasks)

\* C32 witness: with a token configured, an event that carried the token
\* in its meta and nowhere else was accepted, and the registry, the file
\* and a watcher hold the task with a meta that has no key left.
C32_Witness ==
  /\ settings.api_tokens # {}
  /\ req.op = "progress"
  /\ resp.code = 200
  /\ req.qtok = None /\ req.header = None
  /\ req.meta = Some([_token |-> "good"])
  /\ tasks[req.id].meta = EmptyDict
  /\ disk # None /\ disk[1].tasks[req.id].meta = EmptyDict
  /\ \E w \in watchers: inbox[w][1].tasks[req.id].meta = EmptyDict

\* C33: a sweep removes a task only if close-retention or max-age selects
\* it; a task it marks stale keeps every field but status and stale_at;
\* every other task it keeps is unchanged; so with max_task_age = 0 no
\* task whose status is not close, a stale one included, is removed.
C33_SweepFrame ==
  [][req'.op = "sweep" =>
       \A id \in DOMAIN tasks:
         LET t == tasks[id] IN
         /\ id \notin DOMAIN tasks' => (ByRetention(t) \/ ByMaxAge(t))
         /\ (settings.max_task_age = 0 /\ t.status # "close") =>
              id \in DOMAIN tasks'
         /\ id \in DOMAIN tasks' =>
              IF id \in resp'.marked
                THEN /\ DOMAIN tasks'[id] = DOMAIN t \cup {"stale_at"}
                     /\ \A k \in DOMAIN t \ {"status", "stale_at"}:
                          tasks'[id][k] = t[k]
                ELSE tasks'[id] = t]_vars

\* C33 witness: with close-retention on and max-age off, one sweep removed
\* a closed task and left alone a stale task that is older than the
\* retention window.
C33_Witness ==
  /\ req.op = "sweep"
  /\ settings.max_task_age = 0
  /\ settings.retention_seconds > 0
  /\ resp.removed # {}
  /\ resp.marked = {}
  /\ \E id \in DOMAIN tasks:
       /\ tasks[id].status = "stale"
       /\ tasks[id].stale_at < snow
       /\ snow - tasks[id].updated_at > settings.retention_seconds

\* C34: after uninstall() the tqdm attribute of every imported tqdm module
\* is a class without the remote mixin, and the patch record is empty.
C34_UninstallRestores ==
  pcall = "uninstall" =>
    /\ PATCHED = EmptyDict
    /\ \A m \in DOMAIN sys_modules: ~IsRemote(sys_modules[m])

====
